---------------------------- MODULE Spec2Model ----------------------------
(***************************************************************************)
(* A model of the circuit lifecycle coordinator of the splinter admin      *)
(* service (libsplinter/src/admin/service/shared.rs, AdminServiceShared).  *)
(* The coordinator's fields are the variables; every public operation of   *)
(* AdminServiceShared is one action.  An operation is written as an        *)
(* operator from the state record (and its inputs) to the state record it  *)
(* leaves behind, with the returned Result in the field "res".             *)
(***************************************************************************)
EXTENDS Integers, Sequences, FiniteSets, TLC

(***************************************************************************)
(* Protocol constants (crate::protocol, imported at shared.rs:49-51).      *)
(***************************************************************************)
ADMIN_SERVICE_PROTOCOL_MIN == 1
ADMIN_SERVICE_PROTOCOL_VERSION == 2
CIRCUIT_PROTOCOL_VERSION == 2
KEY_LEN == 33

(***************************************************************************)
(* Bounds of the model.                                                    *)
(***************************************************************************)
MaxPending == 1
MaxQueued == 2
MaxEvents == 4
MaxRefs == 1
MaxIds == 2
MaxMembers == 2
MaxVotes == 2

(***************************************************************************)
(* Node ids.  The local node (AdminServiceShared::node_id) is node_a.      *)
(***************************************************************************)
node_id == "node_a"
Nodes == {node_id, "node_b", "node_c"}

\* admin_service_id(node) is the string "admin::<node>"
admin_service_id(n) ==
    CASE n = "node_a" -> "admin::node_a"
      [] n = "node_b" -> "admin::node_b"
      [] n = "node_c" -> "admin::node_c"
      [] OTHER -> "admin::"

RangeOf(s) == {s[i] : i \in DOMAIN s}

(***************************************************************************)
(* Identifiers are strings of characters; a string is a tuple of           *)
(* one-character strings so that its grammar can be checked.               *)
(***************************************************************************)
Base62 ==
    {"0","1","2","3","4","5","6","7","8","9",
     "a","b","c","d","e","f","g","h","i","j","k","l","m",
     "n","o","p","q","r","s","t","u","v","w","x","y","z",
     "A","B","C","D","E","F","G","H","I","J","K","L","M",
     "N","O","P","Q","R","S","T","U","V","W","X","Y","Z"}

\* ^[0-9A-Za-z]{5}-[0-9A-Za-z]{5}$
is_valid_circuit_id(id) ==
    /\ Len(id) = 11
    /\ id[6] = "-"
    /\ \A i \in (1..11) \ {6} : id[i] \in Base62

\* ^[0-9A-Za-z]{4}$
is_valid_service_id(id) ==
    /\ Len(id) = 4
    /\ \A i \in 1..4 : id[i] \in Base62

(***************************************************************************)
(* Public keys.  A key is its length in bytes and the node it is           *)
(* registered for; AdminKeyVerifier::is_permitted(node, key) looks the     *)
(* key up in the registry of that node.                                    *)
(***************************************************************************)
Key(owner, len) == [owner |-> owner, len |-> len]

key_verifier_is_permitted(n, key) == key.owner = n

\* sha256 of an encoded message: an injective tag of the message
sha256(m) == <<"sha256", m>>


\* Option<T>: None is the empty tuple, Some(x) the one-element tuple
NoneV == <<>>
Some(x) == <<x>>
IsSome(o) == o # <<>>
Unwrap(o) == o[1]

\* Result<(), E>: the error kind and its diagnostic
OkRes == [kind |-> "Ok", msg |-> ""]
Err(kind, msg) == [kind |-> kind, msg |-> msg]
IsOk(r) == r.kind = "Ok"

(***************************************************************************)
(* validate_key: a public key is 33 bytes long.                            *)
(***************************************************************************)
validate_key(public_key) ==
    IF public_key.len # KEY_LEN
    THEN Err("ValidationFailed", "not a valid public key: invalid length")
    ELSE OkRes

(***************************************************************************)
(* validate_circuit, the loop over the members: node ids and endpoints     *)
(* seen so far are carried in members and all_endpoints.                   *)
(***************************************************************************)
RECURSIVE validate_members(_, _, _)
validate_members(ms, members, all_endpoints) ==
    IF ms = <<>> THEN OkRes
    ELSE LET member == Head(ms)
             endpoints == member.endpoints
         IN IF member.node_id = ""
            THEN Err("ValidationFailed", "Member node id cannot be empty")
            ELSE IF member.node_id \in RangeOf(members)
            THEN Err("ValidationFailed", "Every member must be unique in the circuit.")
            ELSE IF endpoints = <<>>
            THEN Err("ValidationFailed", "Member endpoints cannot be empty")
            ELSE IF \E i \in DOMAIN endpoints : endpoints[i] = ""
            THEN Err("ValidationFailed", "Member cannot have an empty endpoint")
            ELSE IF \E i \in DOMAIN endpoints : endpoints[i] \in RangeOf(all_endpoints)
            THEN Err("ValidationFailed", "Every member endpoint must be unique in the circuit.")
            ELSE validate_members(Tail(ms), Append(members, member.node_id),
                                  all_endpoints \o endpoints)

member_ids(circuit) == [i \in DOMAIN circuit.members |-> circuit.members[i].node_id]

(***************************************************************************)
(* validate_circuit, the loop over the roster: service ids seen so far     *)
(* are carried in services.                                                *)
(***************************************************************************)
RECURSIVE validate_roster(_, _, _)
validate_roster(roster, members, services) ==
    IF roster = <<>> THEN OkRes
    ELSE LET service == Head(roster)
         IN IF service.allowed_nodes = <<>>
            THEN Err("ValidationFailed", "Service cannot have an empty allowed nodes list")
            ELSE IF Len(service.allowed_nodes) > 1
            THEN Err("ValidationFailed", "Only one allowed node for a service is supported")
            ELSE IF \E i \in DOMAIN service.allowed_nodes :
                        service.allowed_nodes[i] \notin RangeOf(members)
            THEN Err("ValidationFailed", "Service cannot have an allowed node that is not in members")
            ELSE IF service.service_id = <<>>
            THEN Err("ValidationFailed", "Service id cannot be empty")
            ELSE IF ~is_valid_service_id(service.service_id)
            THEN Err("ValidationFailed", "not a valid service ID")
            ELSE IF service.service_id \in RangeOf(services)
            THEN Err("ValidationFailed", "Every service must be unique in the circuit.")
            ELSE validate_roster(Tail(roster), members, Append(services, service.service_id))

validate_circuit(circuit) ==
    IF circuit.authorization_type = "UNSET_AUTHORIZATION_TYPE"
    THEN Err("ValidationFailed", "authorization_type cannot be unset")
    ELSE IF circuit.persistence = "UNSET_PERSISTENCE_TYPE"
    THEN Err("ValidationFailed", "persistence_type cannot be unset")
    ELSE IF circuit.durability = "UNSET_DURABILITY_TYPE"
    THEN Err("ValidationFailed", "durability_type cannot be unset")
    ELSE IF circuit.routes = "UNSET_ROUTE_TYPE"
    THEN Err("ValidationFailed", "route_type cannot be unset")
    ELSE IF circuit.circuit_id = <<>>
    THEN Err("ValidationFailed", "circuit_id must be set")
    ELSE IF ~is_valid_circuit_id(circuit.circuit_id)
    THEN Err("ValidationFailed", "not a valid circuit ID")
    ELSE IF circuit.circuit_management_type = ""
    THEN Err("ValidationFailed", "circuit_management_type must be set")
    ELSE LET mres == validate_members(circuit.members, <<>>, <<>>)
             members == member_ids(circuit)
         IN IF ~IsOk(mres) THEN mres
            ELSE IF members = <<>>
            THEN Err("ValidationFailed", "The circuit must have members")
            ELSE IF node_id \notin RangeOf(members)
            THEN Err("ValidationFailed", "Circuit does not contain this node")
            ELSE IF circuit.roster = <<>>
            THEN Err("ValidationFailed", "The circuit must have services")
            ELSE validate_roster(circuit.roster, members, <<>>)

(***************************************************************************)
(* The coordinator state.  An operation is applied to the record of the    *)
(* fields and yields the record after it; "res" is the value it returns.   *)
(***************************************************************************)
VARIABLES
    proposals,                  \* admin_store: circuit id -> Option<CircuitProposal>
    circuits,                   \* admin_store: circuit id -> Option<Circuit>
    routing,                    \* routing_table_writer: circuit ids with an entry
    peer_refs,                  \* peer_refs: node id -> number of PeerRef held
    service_protocols,          \* service id -> agreed protocol (0: no entry)
    unpeered_payloads,          \* Vec<PendingPayload>
    pending_protocol_payloads,  \* Vec<PendingPayload>
    pending_circuit_payloads,   \* VecDeque<CircuitManagementPayload>
    pending_consensus_proposals,\* payloads of the proposals consensus is deciding
    pending_changes,            \* Option<CircuitProposalContext>
    uninitialized_circuits,     \* circuit id -> Option<UninitializedCircuit>
    pending_consensus_disbanded_circuits, \* circuit id -> Option<PendingDisbandedCircuit>
    events,                     \* the event log, oldest first
    services,                   \* ServiceOrchestrator: the running services
    event_subscribers,          \* SubscriberMap: management type -> Vec of subscribers
    handled,                    \* subscriber -> the events its handle_event was given
    event_store,                \* whether the event store of this run takes an event
    offered,                    \* the circuit definition the clients of this run propose
    capacity,                   \* the payloads this run lets be in flight at a time
    last,                       \* the last operation, its inputs and its result
    dispatcher,                 \* network::dispatch::Dispatcher: handlers, network_sender
    join_handle,                \* the thread of the dispatch loop
    rx,                         \* the channel of the dispatch loop, oldest first
    senders,                    \* the holders of a Sender of the channel
    taken                       \* what the thread took from the channel, oldest first

fields ==
    <<proposals, circuits, routing, peer_refs, service_protocols, unpeered_payloads,
      pending_protocol_payloads, pending_circuit_payloads, pending_consensus_proposals,
      pending_changes, uninitialized_circuits, pending_consensus_disbanded_circuits,
      events, services, event_subscribers, handled, event_store>>

\* the dispatcher and its loop
loop_vars == <<dispatcher, join_handle, rx, senders, taken>>

vars == <<fields, offered, capacity, last, loop_vars>>

\* the fields as one record: &mut self
Self ==
    [proposals |-> proposals, circuits |-> circuits, routing |-> routing,
     peer_refs |-> peer_refs, service_protocols |-> service_protocols,
     unpeered_payloads |-> unpeered_payloads,
     pending_protocol_payloads |-> pending_protocol_payloads,
     pending_circuit_payloads |-> pending_circuit_payloads,
     pending_consensus_proposals |-> pending_consensus_proposals,
     pending_changes |-> pending_changes,
     uninitialized_circuits |-> uninitialized_circuits,
     pending_consensus_disbanded_circuits |-> pending_consensus_disbanded_circuits,
     events |-> events, services |-> services,
     event_subscribers |-> event_subscribers, handled |-> handled,
     event_store |-> event_store,
     res |-> OkRes, sent |-> <<>>]

\* the operation returns r
Return(s, r) == [s EXCEPT !.res = r]

(***************************************************************************)
(* check_approved: the status of a proposal, from its votes.               *)
(***************************************************************************)
RECURSIVE received_votes(_, _)
\* the loop over the votes: the voters seen, or None at the first REJECT
received_votes(votes, seen) ==
    IF votes = <<>> THEN Some(seen)
    ELSE IF Head(votes).vote = "REJECT" THEN NoneV
    ELSE received_votes(Tail(votes), seen \cup {Head(votes).voter_node_id})

\* check_approved with the requester left among the required voters
check_approved_requester_votes(proposal) ==
    LET received == received_votes(proposal.votes, {})
        required_votes == RangeOf(member_ids(proposal.circuit_proposal))
    IN IF ~IsSome(received) THEN "Rejected"
       ELSE IF required_votes = Unwrap(received) THEN "Accepted"
       ELSE "Pending"

check_approved(proposal) ==
    LET received == received_votes(proposal.votes, {})
        required_votes == RangeOf(member_ids(proposal.circuit_proposal))
                              \ {proposal.requester_node_id}
    IN IF ~IsSome(received) THEN "Rejected"
       ELSE IF required_votes = Unwrap(received) THEN "Accepted"
       ELSE "Pending"

(***************************************************************************)
(* The configured signature verifier (cylinder Verifier::verify): Ok(true) *)
(* for a signature made over the header with the requester key, Ok(false)  *)
(* for another signature, Err for bytes that are no signature.             *)
(***************************************************************************)
signature_verifier_verify(payload) ==
    CASE payload.signature = "good" -> [ok |-> TRUE, value |-> TRUE]
      [] payload.signature = "bad" -> [ok |-> TRUE, value |-> FALSE]
      [] OTHER -> [ok |-> FALSE, value |-> FALSE]

\* verify_signature: Result<bool, ServiceError>
verify_signature(payload) ==
    LET r == signature_verifier_verify(payload)
    IN IF r.ok THEN [kind |-> "Ok", msg |-> "", value |-> r.value]
       ELSE [kind |-> "VerificationError", msg |-> "unable to verify", value |-> FALSE]

validate_circuit_management_payload(payload) ==
    IF payload.signature = ""
    THEN Err("ValidationFailed", "CircuitManagementPayload signature must be set")
    ELSE IF payload.header_empty
    THEN Err("ValidationFailed", "CircuitManagementPayload header must be set")
    ELSE IF payload.requester.len = 0
    THEN Err("ValidationFailed", "CircuitManagementPayload must have a requester")
    ELSE IF ~IsOk(validate_key(payload.requester))
    THEN validate_key(payload.requester)
    ELSE IF payload.requester_node_id = ""
    THEN Err("ValidationFailed", "CircuitManagementPayload must have a requester node id")
    ELSE OkRes

(***************************************************************************)
(* KeyPermissionManager::is_permitted answers Ok(true), Ok(false) or Err;  *)
(* the answer is an input of the validation ("true", "false", "error").    *)
(* The validations map the Err to ValidationFailed and use `?` on the      *)
(* result: the boolean of an Ok answer is not looked at.                   *)
(***************************************************************************)

key_permission_check(perm, msg) ==
    IF perm = "error" THEN Err("ValidationFailed", msg) ELSE OkRes

\* has_proposal that finds no proposal
has_proposal_none(s, circuit_id) == FALSE

has_proposal(s, circuit_id) == IsSome(s.proposals[circuit_id])

validate_create_circuit(s, circuit, signer_public_key, requester_node_id, protocol, perm) ==
    LET version_res ==
            IF protocol = ADMIN_SERVICE_PROTOCOL_VERSION
            THEN IF circuit.circuit_version > CIRCUIT_PROTOCOL_VERSION
                 THEN Err("ValidationFailed", "Proposed circuit's schema version is unsupported")
                 ELSE OkRes
            ELSE IF protocol = 1
            THEN IF circuit.display_name # ""
                 THEN Err("ValidationFailed", "Proposed circuit cannot have a display name on protocol 1")
                 ELSE IF circuit.circuit_status # "UNSET_CIRCUIT_STATUS"
                 THEN Err("ValidationFailed", "Proposed circuit cannot have a circuit status on protocol 1")
                 ELSE IF circuit.circuit_version # 0
                 THEN Err("ValidationFailed", "Proposed circuit schema version is not supported by protocol 1")
                 ELSE OkRes
            ELSE Err("ServiceProtocolError", "Agreed upon unsupported protocol version")
    IN IF ~IsOk(version_res) THEN version_res
       ELSE IF requester_node_id = ""
       THEN Err("ValidationFailed", "requester_node_id is empty")
       ELSE IF ~IsOk(validate_key(signer_public_key)) THEN validate_key(signer_public_key)
       ELSE IF ~key_verifier_is_permitted(requester_node_id, signer_public_key)
       THEN Err("ValidationFailed", "key is not registered for the requester node")
       ELSE IF ~IsOk(key_permission_check(perm, "key is not permitted to vote for node"))
       THEN key_permission_check(perm, "key is not permitted to vote for node")
       ELSE IF has_proposal(s, circuit.circuit_id)
       THEN Err("ValidationFailed", "Ignoring duplicate proposal for circuit")
       ELSE IF IsSome(s.circuits[circuit.circuit_id])
       THEN Err("ValidationFailed", "Circuit with circuit id already exists")
       ELSE validate_circuit(circuit)

validate_circuit_vote(proposal_vote, signer_public_key, circuit_proposal, voter, perm) ==
    IF ~IsOk(validate_key(signer_public_key)) THEN validate_key(signer_public_key)
    ELSE IF ~key_verifier_is_permitted(voter, signer_public_key)
    THEN Err("ValidationFailed", "key is not registered for voting node")
    ELSE IF circuit_proposal.requester_node_id = voter
    THEN Err("ValidationFailed", "Received vote from requester node")
    ELSE IF \E i \in DOMAIN circuit_proposal.votes :
                circuit_proposal.votes[i].voter_node_id = voter
    THEN Err("ValidationFailed", "Received duplicate vote")
    ELSE IF ~IsOk(key_permission_check(perm, "key is not permitted to vote for node"))
    THEN key_permission_check(perm, "key is not permitted to vote for node")
    ELSE IF circuit_proposal.circuit_hash # proposal_vote.circuit_hash
    THEN Err("ValidationFailed", "Hash of circuit does not match circuit proposal")
    ELSE OkRes

(***************************************************************************)
(* Peer refs.  peer_refs maps a peer id to the number of PeerRef values    *)
(* held in its Vec; an id without an entry has 0.                          *)
(***************************************************************************)
add_peer_ref(s, peer_id) ==
    [s EXCEPT !.peer_refs[peer_id] = @ + 1]

remove_peer_ref(s, peer_id) ==
    [s EXCEPT !.peer_refs[peer_id] = IF @ > 0 THEN @ - 1 ELSE 0]

\* for peer in ids { self.remove_peer_ref(peer) }
RECURSIVE remove_peer_refs(_, _)
remove_peer_refs(s, ids) ==
    IF ids = <<>> THEN s
    ELSE remove_peer_refs(remove_peer_ref(s, Head(ids)), Tail(ids))

has_protocol(s, n) == s.service_protocols[admin_service_id(n)] # 0

ProtocolRequest(n) ==
    [to |-> admin_service_id(n), type |-> "SERVICE_PROTOCOL_VERSION_REQUEST",
     circuit_id |-> <<>>]

\* send_protocol_request: a request is sent unless a protocol is agreed
send_protocol_request(s, n) ==
    IF ~has_protocol(s, n)
    THEN [s EXCEPT !.sent = Append(@, ProtocolRequest(n))]
    ELSE s

PendingPayload(unpeered_ids, missing_protocol_ids, kind, payload, members, message_sender) ==
    [unpeered_ids |-> unpeered_ids, missing_protocol_ids |-> missing_protocol_ids,
     payload_type |-> [kind |-> kind, payload |-> payload],
     members |-> members, message_sender |-> message_sender]

\* the members (other than this node) without an agreed protocol, in order
missing_protocol_nodes(s, ids) ==
    SelectSeq(ids, LAMBDA n : n # node_id /\ ~has_protocol(s, n))

to_service_ids(ids) == [i \in DOMAIN ids |-> admin_service_id(ids[i])]

RECURSIVE send_protocol_requests(_, _)
send_protocol_requests(s, ids) ==
    IF ids = <<>> THEN s
    ELSE send_protocol_requests(send_protocol_request(s, Head(ids)), Tail(ids))

\* check_connected_peers_payload_vote that treats the payload as one to create
\* a circuit: a peer ref for every member that lacks a protocol, and the
\* unpeered queue
check_connected_peers_payload_vote_peers(s, ids, payload, message_sender) ==
    LET missing == missing_protocol_nodes(s, ids)
    IN IF missing = <<>>
       THEN Return([s EXCEPT !.pending_circuit_payloads = Append(@, payload)], OkRes)
       ELSE Return([add_peer_ref(s, Head(missing)) EXCEPT !.unpeered_payloads =
                        Append(@, PendingPayload(missing, to_service_ids(missing), "Circuit",
                                                 payload, ids, message_sender))], OkRes)

\* check_connected_peers_payload_vote and check_connected_peers_payload_disband
check_connected_peers_payload_vote(s, ids, payload, message_sender) ==
    LET missing == missing_protocol_nodes(s, ids)
        s1 == send_protocol_requests(s, missing)
    IN IF missing = <<>>
       THEN Return([s1 EXCEPT !.pending_circuit_payloads = Append(@, payload)], OkRes)
       ELSE Return([s1 EXCEPT !.pending_protocol_payloads =
                        Append(@, PendingPayload(<<>>, to_service_ids(missing), "Circuit",
                                                 payload, ids, message_sender))], OkRes)

check_connected_peers_payload_disband(s, ids, payload, message_sender) ==
    check_connected_peers_payload_vote(s, ids, payload, message_sender)

(***************************************************************************)
(* The loop of check_connected_peers_payload_create and of                 *)
(* handle_proposed_circuit that takes a PeerRef for every other member.    *)
(* PeerManagerConnector::add_peer_ref fails for the peer bad_peer; the     *)
(* refs added so far (added_peers) are then given back.                    *)
(***************************************************************************)
\* the loop without the closure of map_err: the refs added so far are kept
RECURSIVE add_member_peer_refs_kept(_, _, _, _)
add_member_peer_refs_kept(s, ids, added_peers, bad_peer) ==
    IF ids = <<>> THEN Return(s, OkRes)
    ELSE IF Head(ids) = node_id
    THEN add_member_peer_refs_kept(s, Tail(ids), added_peers, bad_peer)
    ELSE IF Head(ids) = bad_peer
    THEN Return(s, Err("PeerRefAddError", "unable to add peer"))
    ELSE add_member_peer_refs_kept(add_peer_ref(s, Head(ids)), Tail(ids),
                                   Append(added_peers, Head(ids)), bad_peer)

RECURSIVE add_member_peer_refs(_, _, _, _)
add_member_peer_refs(s, ids, added_peers, bad_peer) ==
    IF ids = <<>> THEN Return(s, OkRes)
    ELSE IF Head(ids) = node_id
    THEN add_member_peer_refs(s, Tail(ids), added_peers, bad_peer)
    ELSE IF Head(ids) = bad_peer
    THEN Return(remove_peer_refs(s, added_peers), Err("PeerRefAddError", "unable to add peer"))
    ELSE add_member_peer_refs(add_peer_ref(s, Head(ids)), Tail(ids),
                              Append(added_peers, Head(ids)), bad_peer)

check_connected_peers_payload_create(s, members, payload, message_sender, bad_peer) ==
    LET ids == [i \in DOMAIN members |-> members[i].node_id]
        s1 == add_member_peer_refs(s, ids, <<>>, bad_peer)
        pending_peers == missing_protocol_nodes(s, ids)
    IN IF ~IsOk(s1.res) THEN s1
       ELSE IF pending_peers = <<>>
       THEN Return([s1 EXCEPT !.pending_circuit_payloads = Append(@, payload)], OkRes)
       ELSE Return([s1 EXCEPT !.unpeered_payloads =
                        Append(@, PendingPayload(pending_peers, to_service_ids(pending_peers),
                                                 "Circuit", payload, ids, message_sender))], OkRes)

(***************************************************************************)
(* Conversions between the wire (proto) messages and the store's structs.  *)
(***************************************************************************)
\* ProposedCircuit::from_proto: circuit_version and circuit_status are not kept
ProposedCircuit_from_proto(proto) ==
    IF \/ proto.authorization_type = "UNSET_AUTHORIZATION_TYPE"
       \/ proto.persistence = "UNSET_PERSISTENCE_TYPE"
       \/ proto.durability = "UNSET_DURABILITY_TYPE"
       \/ proto.routes = "UNSET_ROUTE_TYPE"
    THEN NoneV
    ELSE Some([circuit_id |-> proto.circuit_id, roster |-> proto.roster,
               members |-> proto.members, authorization_type |-> "Trust",
               persistence |-> "Any", durability |-> "NoDurability", routes |-> "Any",
               circuit_management_type |-> proto.circuit_management_type,
               display_name |-> proto.display_name])

\* ProposedCircuit::into_proto: circuit_version and circuit_status stay at their defaults
ProposedCircuit_into_proto(circuit) ==
    [circuit_id |-> circuit.circuit_id, roster |-> circuit.roster,
     members |-> circuit.members, authorization_type |-> "TRUST_AUTHORIZATION",
     persistence |-> "ANY_PERSISTENCE", durability |-> "NO_DURABILITY",
     routes |-> "ANY_ROUTE",
     circuit_management_type |-> circuit.circuit_management_type,
     display_name |-> circuit.display_name,
     circuit_version |-> 0, circuit_status |-> "UNSET_CIRCUIT_STATUS"]

Vote_from_proto(v) == IF v = "ACCEPT" THEN "Accept" ELSE "Reject"
Vote_into_proto(v) == IF v = "Accept" THEN "ACCEPT" ELSE "REJECT"
ProposalType_from_proto(t) == IF t = "CREATE" THEN "Create" ELSE "Disband"
ProposalType_into_proto(t) == IF t = "Create" THEN "CREATE" ELSE "DISBAND"

VoteRecord(public_key, vote, voter_node_id) ==
    [public_key |-> public_key, vote |-> vote, voter_node_id |-> voter_node_id]

\* StoreProposal::from_proto (None: the proposed circuit cannot be converted)
StoreProposal_from_proto(proto) ==
    LET circuit == ProposedCircuit_from_proto(proto.circuit_proposal)
    IN IF ~IsSome(circuit) THEN NoneV
       ELSE Some([proposal_type |-> ProposalType_from_proto(proto.proposal_type),
                  circuit_id |-> proto.circuit_id,
                  circuit_hash |-> proto.circuit_hash,
                  circuit |-> Unwrap(circuit),
                  requester |-> proto.requester,
                  requester_node_id |-> proto.requester_node_id,
                  votes |-> [i \in DOMAIN proto.votes |->
                                VoteRecord(proto.votes[i].public_key,
                                           Vote_from_proto(proto.votes[i].vote),
                                           proto.votes[i].voter_node_id)]])

\* StoreProposal::into_proto
StoreProposal_into_proto(proposal) ==
    [proposal_type |-> ProposalType_into_proto(proposal.proposal_type),
     circuit_id |-> proposal.circuit_id,
     circuit_hash |-> proposal.circuit_hash,
     circuit_proposal |-> ProposedCircuit_into_proto(proposal.circuit),
     requester |-> proposal.requester,
     requester_node_id |-> proposal.requester_node_id,
     votes |-> [i \in DOMAIN proposal.votes |->
                   VoteRecord(proposal.votes[i].public_key,
                              Vote_into_proto(proposal.votes[i].vote),
                              proposal.votes[i].voter_node_id)]]

\* the circuit the store makes of a proposal (upgrade_proposal_to_circuit)
StoreCircuit_from_proposed(circuit) ==
    [circuit_id |-> circuit.circuit_id, roster |-> circuit.roster,
     members |-> circuit.members, authorization_type |-> circuit.authorization_type,
     persistence |-> circuit.persistence, durability |-> circuit.durability,
     routes |-> circuit.routes,
     circuit_management_type |-> circuit.circuit_management_type,
     display_name |-> circuit.display_name,
     circuit_version |-> CIRCUIT_PROTOCOL_VERSION, circuit_status |-> "Active"]

CircuitStatus_into_proto(st) ==
    CASE st = "Active" -> "ACTIVE"
      [] st = "Disbanded" -> "DISBANDED"
      [] OTHER -> "ABANDONED"

CircuitStatus_from_proto(st) ==
    CASE st = "DISBANDED" -> "Disbanded"
      [] st = "ABANDONED" -> "Abandoned"
      [] OTHER -> "Active"

\* StoreCircuit -> proto Circuit, with the given status
StoreCircuit_into_proto(circuit, status) ==
    [circuit_id |-> circuit.circuit_id, roster |-> circuit.roster,
     members |-> circuit.members, authorization_type |-> "TRUST_AUTHORIZATION",
     persistence |-> "ANY_PERSISTENCE", durability |-> "NO_DURABILITY",
     routes |-> "ANY_ROUTE",
     circuit_management_type |-> circuit.circuit_management_type,
     display_name |-> circuit.display_name,
     circuit_version |-> circuit.circuit_version,
     circuit_status |-> status]

\* StoreCircuit::try_from(&proto Circuit)
StoreCircuit_try_from(proto) ==
    [circuit_id |-> proto.circuit_id, roster |-> proto.roster,
     members |-> proto.members, authorization_type |-> "Trust",
     persistence |-> "Any", durability |-> "NoDurability", routes |-> "Any",
     circuit_management_type |-> proto.circuit_management_type,
     display_name |-> proto.display_name,
     circuit_version |-> proto.circuit_version,
     circuit_status |-> CircuitStatus_from_proto(proto.circuit_status)]

\* make_disband_request_circuit_proposal: Option of the DISBAND proposal
make_disband_request_circuit_proposal(s, circuit_id, requester, requester_node_id) ==
    IF ~IsSome(s.circuits[circuit_id]) THEN NoneV
    ELSE LET proposed_circuit ==
                 StoreCircuit_into_proto(Unwrap(s.circuits[circuit_id]), "DISBANDED")
         IN Some([proposal_type |-> "DISBAND", circuit_id |-> circuit_id,
                  circuit_hash |-> sha256(proposed_circuit),
                  circuit_proposal |-> proposed_circuit,
                  requester |-> requester, requester_node_id |-> requester_node_id,
                  votes |-> <<>>])

(***************************************************************************)
(* Validation of disband, purge and abandon requests.                      *)
(***************************************************************************)
validate_disband_circuit(s, circuit, signer_public_key, requester_node_id, protocol, perm) ==
    IF protocol # ADMIN_SERVICE_PROTOCOL_VERSION
    THEN Err("ValidationFailed", "Circuit-Disband is not available for protocol version")
    ELSE IF requester_node_id = ""
    THEN Err("ValidationFailed", "requester_node_id is empty")
    ELSE IF ~IsOk(validate_key(signer_public_key)) THEN validate_key(signer_public_key)
    ELSE IF ~key_verifier_is_permitted(requester_node_id, signer_public_key)
    THEN Err("ValidationFailed", "key is not registered for the requester node")
    ELSE IF ~IsOk(key_permission_check(perm, "key is not permitted to disband for node"))
    THEN key_permission_check(perm, "key is not permitted to disband for node")
    ELSE IF has_proposal(s, circuit.circuit_id)
    THEN Err("ValidationFailed", "Ignoring duplicate proposal for circuit")
    ELSE IF ~IsSome(s.circuits[circuit.circuit_id])
    THEN Err("ValidationFailed", "Received disband request for a circuit that does not exist")
    ELSE LET stored_circuit == Unwrap(s.circuits[circuit.circuit_id])
         IN IF stored_circuit.circuit_status # "Active"
            THEN Err("ValidationFailed", "Attempting to disband an inactive circuit")
            ELSE IF stored_circuit.circuit_version < CIRCUIT_PROTOCOL_VERSION
            THEN Err("ValidationFailed", "Attempting to disband a circuit with an old schema version")
            ELSE OkRes

\* the checks validate_purge_request and validate_abandon_circuit share
validate_local_request(s, circuit_id, signer_public_key, requester_node_id, protocol, perm, what) ==
    IF protocol # ADMIN_SERVICE_PROTOCOL_VERSION
    THEN Err("ValidationFailed", "not available for protocol version")
    ELSE IF requester_node_id = ""
    THEN Err("ValidationFailed", "requester_node_id is empty")
    ELSE IF requester_node_id # node_id
    THEN Err("ValidationFailed", "request came from another node")
    ELSE IF ~IsOk(validate_key(signer_public_key)) THEN validate_key(signer_public_key)
    ELSE IF ~key_verifier_is_permitted(requester_node_id, signer_public_key)
    THEN Err("ValidationFailed", "key is not registered for the requester node")
    ELSE IF ~IsOk(key_permission_check(perm, "key is not permitted to propose change for node"))
    THEN key_permission_check(perm, "key is not permitted to propose change for node")
    ELSE IF ~IsSome(s.circuits[circuit_id])
    THEN Err("ValidationFailed", "Received request for a circuit that does not exist")
    ELSE LET stored_circuit == Unwrap(s.circuits[circuit_id])
         IN IF what = "purge" /\ stored_circuit.circuit_status = "Active"
            THEN Err("ValidationFailed", "Attempting to purge a circuit that is still active")
            ELSE IF what = "abandon" /\ stored_circuit.circuit_status # "Active"
            THEN Err("ValidationFailed", "Attempting to abandon a circuit that is not active")
            ELSE IF stored_circuit.circuit_version < CIRCUIT_PROTOCOL_VERSION
            THEN Err("ValidationFailed", "circuit has an old schema version")
            ELSE OkRes

\* validate_purge_request that asks for an Active circuit
validate_purge_request_active(s, circuit_id, signer_public_key, requester_node_id, protocol, perm) ==
    validate_local_request(s, circuit_id, signer_public_key, requester_node_id, protocol,
                           perm, "abandon")

validate_purge_request(s, circuit_id, signer_public_key, requester_node_id, protocol, perm) ==
    validate_local_request(s, circuit_id, signer_public_key, requester_node_id, protocol,
                           perm, "purge")

validate_abandon_circuit(s, circuit_id, signer_public_key, requester_node_id, protocol, perm) ==
    validate_local_request(s, circuit_id, signer_public_key, requester_node_id, protocol,
                           perm, "abandon")

(***************************************************************************)
(* The service orchestrator.  The services of a circuit this node runs are *)
(* those of the roster allowed on this node whose type has a factory.      *)
(* orch = "fail": the orchestrator refuses the first of them.              *)
(***************************************************************************)
SupportedServiceTypes == {"echo"}

local_services(circuit) ==
    {[circuit |-> circuit.circuit_id, service_id |-> circuit.roster[i].service_id] :
        i \in {j \in DOMAIN circuit.roster :
                  /\ node_id \in RangeOf(circuit.roster[j].allowed_nodes)
                  /\ circuit.roster[j].service_type \in SupportedServiceTypes}}

\* the services are started in roster order; the orchestrator that fails,
\* fails for the service a000, and the first failure ends the loop
initialize_services(s, circuit, orch) ==
    LET local == SelectSeq(circuit.roster, LAMBDA service :
                     /\ node_id \in RangeOf(service.allowed_nodes)
                     /\ service.service_type \in SupportedServiceTypes)
        failing == {i \in DOMAIN local :
                       orch = "fail" /\ local[i].service_id = <<"a","0","0","0">>}
        started(n) == {[circuit |-> circuit.circuit_id, service_id |-> local[i].service_id] :
                          i \in 1..n}
    IN IF failing = {}
       THEN Return([s EXCEPT !.services = @ \cup started(Len(local))], OkRes)
       ELSE LET first == CHOOSE i \in failing : \A j \in failing : i <= j
            IN Return([s EXCEPT !.services = @ \cup started(first - 1)],
                      Err("ServiceInitializationFailed", "Unable to start service"))

stop_services(s, circuit, orch) ==
    IF local_services(circuit) # {} /\ orch = "fail"
    THEN Return(s, Err("InternalError", "Unable to shutdown service"))
    ELSE Return([s EXCEPT !.services = @ \ local_services(circuit)], OkRes)

\* purge_services: a service that fails to purge is logged, nothing is returned
purge_services(s, circuit_id, roster, orch) == Return(s, OkRes)

AdminMessage(to, type, circuit_id) ==
    [to |-> admin_service_id(to), type |-> type, circuit_id |-> circuit_id]

\* one message of the type to every member but this node, in member order
RECURSIVE send_to_members(_, _, _, _)
send_to_members(s, ids, type, circuit_id) ==
    IF ids = <<>> THEN s
    ELSE IF Head(ids) = node_id THEN send_to_members(s, Tail(ids), type, circuit_id)
    ELSE send_to_members([s EXCEPT !.sent = Append(@, AdminMessage(Head(ids), type, circuit_id))],
                         Tail(ids), type, circuit_id)

\* purge_circuit that gives up when a service cannot be purged
purge_circuit_needs_services(s, circuit_id, orch) ==
    IF ~IsSome(s.circuits[circuit_id]) \/ orch = "fail"
    THEN Return(s, Err("SplinterStateError", "unable to purge circuit"))
    ELSE Return([s EXCEPT !.circuits[circuit_id] = NoneV], OkRes)

purge_circuit(s, circuit_id, orch) ==
    IF ~IsSome(s.circuits[circuit_id])
    THEN Return(s, Err("SplinterStateError", "Received purged request for a circuit that does not exist"))
    ELSE LET stored_circuit == Unwrap(s.circuits[circuit_id])
             s1 == purge_services(s, circuit_id, stored_circuit.roster, orch)
         IN Return([s1 EXCEPT !.circuits[circuit_id] = NoneV], OkRes)

abandon_circuit(s, circuit_id, orch) ==
    IF ~IsSome(s.circuits[circuit_id])
    THEN Return(s, Err("SplinterStateError", "Received abandon request for a circuit that does not exist"))
    ELSE LET stored_circuit == Unwrap(s.circuits[circuit_id])
             ids == member_ids(stored_circuit)
             s1 == send_to_members(s, ids, "ABANDONED_CIRCUIT", circuit_id)
             s2 == [s1 EXCEPT !.circuits[circuit_id] =
                        Some([stored_circuit EXCEPT !.circuit_status = "Abandoned"])]
             s3 == stop_services(s2, StoreCircuit_into_proto(stored_circuit, "ACTIVE"), orch)
         IN IF ~IsOk(s3.res) THEN s3
            ELSE Return(remove_peer_refs([s3 EXCEPT !.routing = @ \ {circuit_id}], ids), OkRes)

(***************************************************************************)
(* CircuitManagementPayload.  The header (action, requester,               *)
(* requester_node_id) is parsed from the header bytes; a request that is   *)
(* not set reads as the default message.                                   *)
(***************************************************************************)

get_circuit_create_request(payload) ==
    IF IsSome(payload.create) THEN Unwrap(payload.create)
    ELSE [circuit_id |-> <<>>, roster |-> <<>>, members |-> <<>>,
          authorization_type |-> "UNSET_AUTHORIZATION_TYPE",
          persistence |-> "UNSET_PERSISTENCE_TYPE",
          durability |-> "UNSET_DURABILITY_TYPE",
          routes |-> "UNSET_ROUTE_TYPE", circuit_management_type |-> "",
          display_name |-> "", circuit_version |-> 0,
          circuit_status |-> "UNSET_CIRCUIT_STATUS"]
get_circuit_proposal_vote(payload) ==
    IF IsSome(payload.vote) THEN Unwrap(payload.vote)
    ELSE [circuit_id |-> <<>>, circuit_hash |-> sha256(<<>>), vote |-> "UNSET_VOTE"]
get_circuit_disband_request(payload) ==
    IF IsSome(payload.disband) THEN Unwrap(payload.disband) ELSE <<>>
get_circuit_purge_request(payload) ==
    IF IsSome(payload.purge) THEN Unwrap(payload.purge) ELSE <<>>
get_circuit_abandon(payload) ==
    IF IsSome(payload.abandon) THEN Unwrap(payload.abandon) ELSE <<>>

propose_circuit(s, payload, message_sender, bad_peer) ==
    check_connected_peers_payload_create(
        s, get_circuit_create_request(payload).members, payload, message_sender, bad_peer)

propose_vote(s, payload, message_sender) ==
    LET circuit_id == get_circuit_proposal_vote(payload).circuit_id
    IN IF ~IsSome(s.proposals[circuit_id])
       THEN Return(s, Err("ValidationFailed", "Received vote for a proposal that does not exist"))
       ELSE check_connected_peers_payload_vote(
                s, member_ids(Unwrap(s.proposals[circuit_id]).circuit), payload, message_sender)

propose_disband(s, payload, requester, requester_node_id, message_sender) ==
    LET circuit_id == get_circuit_disband_request(payload)
        circuit_proposal ==
            make_disband_request_circuit_proposal(s, circuit_id, requester, requester_node_id)
    IN IF ~IsSome(circuit_proposal)
       THEN Return(s, Err("SplinterStateError", "Unable to get circuit"))
       ELSE check_connected_peers_payload_disband(
                s, member_ids(Unwrap(circuit_proposal).circuit_proposal), payload,
                message_sender)

\* submit that puts a request to purge or to abandon a circuit in the ready queue
submit_queues_purge(s, payload, perm, bad_peer, orch) ==
    IF payload.action \in {"CIRCUIT_PURGE_REQUEST", "CIRCUIT_ABANDON"}
    THEN Return([s EXCEPT !.pending_circuit_payloads = Append(@, payload)], OkRes)
    ELSE Return(s, Err("ValidationFailed", "Unable to handle action"))

\* submit that queues a request to create a circuit before it validates it
submit_queues_first(s, payload, perm, bad_peer, orch) ==
    LET payload_res == validate_circuit_management_payload(payload)
        signature_res == verify_signature(payload)
    IN IF ~IsOk(payload_res) THEN Return(s, payload_res)
       ELSE IF ~IsOk(signature_res) THEN Return(s, Err(signature_res.kind, signature_res.msg))
       ELSE IF payload.action = "CIRCUIT_CREATE_REQUEST"
       THEN LET queued == propose_circuit(s, payload, "local", bad_peer)
                r == validate_create_circuit(s, get_circuit_create_request(payload),
                         payload.requester, payload.requester_node_id,
                         ADMIN_SERVICE_PROTOCOL_VERSION, perm)
            IN IF ~IsOk(r) THEN Return(queued, r) ELSE queued
       ELSE Return(s, Err("ValidationFailed", "Unable to handle action"))

(***************************************************************************)
(* submit: a payload handed in at this node.                               *)
(*   perm      the answer of the KeyPermissionManager                      *)
(*   bad_peer  the peer the connector cannot add a ref for                 *)
(*   orch      whether the orchestrator does what it is asked              *)
(***************************************************************************)
submit(s, payload, perm, bad_peer, orch) ==
    LET payload_res == validate_circuit_management_payload(payload)
        signature_res == verify_signature(payload)
        signer_public_key == payload.requester
        requester_node_id == payload.requester_node_id
    IN IF ~IsOk(payload_res) THEN Return(s, payload_res)
       ELSE IF ~IsOk(signature_res) THEN Return(s, Err(signature_res.kind, signature_res.msg))
       ELSE CASE payload.action = "CIRCUIT_CREATE_REQUEST" ->
                LET r == validate_create_circuit(s, get_circuit_create_request(payload),
                             signer_public_key, requester_node_id,
                             ADMIN_SERVICE_PROTOCOL_VERSION, perm)
                IN IF ~IsOk(r) THEN Return(s, r)
                   ELSE propose_circuit(s, payload, "local", bad_peer)
              [] payload.action = "CIRCUIT_PROPOSAL_VOTE" ->
                LET proposal_vote == get_circuit_proposal_vote(payload)
                IN IF ~IsSome(s.proposals[proposal_vote.circuit_id])
                   THEN Return(s, Err("ValidationFailed",
                                      "Received vote for a proposal that does not exist"))
                   ELSE LET r == validate_circuit_vote(proposal_vote, signer_public_key,
                                     Unwrap(s.proposals[proposal_vote.circuit_id]),
                                     requester_node_id, perm)
                        IN IF ~IsOk(r) THEN Return(s, r)
                           ELSE propose_vote(s, payload, "local")
              [] payload.action = "CIRCUIT_DISBAND_REQUEST" ->
                LET circuit_id == get_circuit_disband_request(payload)
                    circuit_proposal == make_disband_request_circuit_proposal(
                                            s, circuit_id, signer_public_key, requester_node_id)
                IN IF ~IsSome(circuit_proposal)
                   THEN Return(s, Err("SplinterStateError", "Unable to get circuit"))
                   ELSE LET r == validate_disband_circuit(s,
                                     Unwrap(circuit_proposal).circuit_proposal,
                                     signer_public_key, requester_node_id,
                                     ADMIN_SERVICE_PROTOCOL_VERSION, perm)
                        IN IF ~IsOk(r) THEN Return(s, r)
                           ELSE propose_disband(s, payload, signer_public_key,
                                                requester_node_id, "local")
              [] payload.action = "CIRCUIT_PURGE_REQUEST" ->
                LET circuit_id == get_circuit_purge_request(payload)
                    r == validate_purge_request(s, circuit_id, signer_public_key,
                             requester_node_id, ADMIN_SERVICE_PROTOCOL_VERSION, perm)
                IN IF ~IsOk(r) THEN Return(s, r)
                   ELSE purge_circuit(s, circuit_id, orch)
              [] payload.action = "CIRCUIT_ABANDON" ->
                LET circuit_id == get_circuit_abandon(payload)
                    r == validate_abandon_circuit(s, circuit_id, signer_public_key,
                             requester_node_id, ADMIN_SERVICE_PROTOCOL_VERSION, perm)
                IN IF ~IsOk(r) THEN Return(s, r)
                   ELSE abandon_circuit(s, circuit_id, orch)
              [] payload.action = "ACTION_UNSET" ->
                Return(s, Err("ValidationFailed", "No action specified"))
              [] OTHER ->
                Return(s, Err("ValidationFailed", "Unable to handle action"))

(***************************************************************************)
(* The admin store (AdminServiceStore, a trait object).  add_proposal      *)
(* stores the proposal under its circuit id; upgrade_proposal_to_circuit   *)
(* needs the stored proposal and replaces it by the circuit made of it;    *)
(* update_circuit needs the stored circuit.                                *)
(***************************************************************************)
store_add_proposal(s, proposal) ==
    Return([s EXCEPT !.proposals[proposal.circuit_id] = Some(proposal)], OkRes)

store_upgrade_proposal_to_circuit(s, circuit_id) ==
    IF ~IsSome(s.proposals[circuit_id])
    THEN Return(s, Err("StoreError", "proposal does not exist"))
    ELSE Return([s EXCEPT !.proposals[circuit_id] = NoneV,
                          !.circuits[circuit_id] =
                              Some(StoreCircuit_from_proposed(
                                       Unwrap(s.proposals[circuit_id]).circuit))],
                OkRes)

store_update_circuit(s, circuit) ==
    IF ~IsSome(s.circuits[circuit.circuit_id])
    THEN Return(s, Err("SplinterStateError", "Unable to update circuit"))
    ELSE Return([s EXCEPT !.circuits[circuit.circuit_id] = Some(circuit)], OkRes)

\* remove_proposal: the proposal that was stored, if any, is handed back in res
remove_proposal(s, circuit_id) ==
    [s EXCEPT !.proposals[circuit_id] = NoneV]

add_proposal(s, circuit_proposal) ==
    LET proposal == StoreProposal_from_proto(circuit_proposal)
    IN IF ~IsSome(proposal)
       THEN Return(s, Err("SplinterStateError", "Unable to add proposal"))
       ELSE store_add_proposal(s, Unwrap(proposal))

(***************************************************************************)
(* send_event: the event is appended to the event store and handed to the  *)
(* subscribers of its circuit management type.                             *)
(***************************************************************************)
\* an event carries the proposal it is about
AdminServiceEvent(event_type, circuit_proposal) ==
    [event_type |-> event_type, circuit_id |-> circuit_proposal.circuit_id,
     requester_node_id |-> circuit_proposal.requester_node_id,
     circuit_management_type |-> circuit_proposal.circuit_proposal.circuit_management_type]

\* retain that keeps the subscribers that answer Ok only
broadcast_by_type_ok_only(s, event_type, admin_service_event) ==
    IF event_type \notin DOMAIN s.event_subscribers THEN s
    ELSE LET subscribers == s.event_subscribers[event_type]
             given == {subscribers[i].id : i \in DOMAIN subscribers}
             retained == SelectSeq(subscribers, LAMBDA sub : sub.answers = <<>>)
         IN [s EXCEPT !.handled = [id \in DOMAIN @ |->
                                      IF id \in given THEN Append(@[id], admin_service_event)
                                      ELSE @[id]],
                      !.event_subscribers[event_type] = retained]

\* SubscriberMap::broadcast_by_type: retain hands the event to every subscriber
\* of the type in turn and keeps those that do not answer Unsubscribe.  A
\* subscriber answers the head of its answers, and Ok once they are used up.
broadcast_by_type(s, event_type, admin_service_event) ==
    IF event_type \notin DOMAIN s.event_subscribers THEN s
    ELSE LET subscribers == s.event_subscribers[event_type]
             given == {subscribers[i].id : i \in DOMAIN subscribers}
             retained == SelectSeq(subscribers,
                                   LAMBDA sub : \/ sub.answers = <<>>
                                                \/ Head(sub.answers) # "Unsubscribe")
         IN [s EXCEPT !.handled = [id \in DOMAIN @ |->
                                      IF id \in given THEN Append(@[id], admin_service_event)
                                      ELSE @[id]],
                      !.event_subscribers[event_type] =
                          [i \in DOMAIN retained |->
                              [retained[i] EXCEPT !.answers =
                                   IF @ = <<>> THEN <<>> ELSE Tail(@)]]]

\* send_event that goes on to the subscribers when the store has failed
send_event_unstored(s, circuit_management_type, event) ==
    broadcast_by_type(IF s.event_store # "ok" THEN s
                      ELSE [s EXCEPT !.events = Append(@, event)],
                      circuit_management_type, event)

send_event(s, circuit_management_type, event) ==
    IF s.event_store # "ok" THEN s
    ELSE broadcast_by_type([s EXCEPT !.events = Append(@, event)],
                           circuit_management_type, event)

(***************************************************************************)
(* propose_change: consensus asks for the proposal a payload stands for.   *)
(***************************************************************************)
\* the lowest protocol agreed with a member, ADMIN_SERVICE_PROTOCOL_VERSION at most
RECURSIVE member_protocol(_, _, _)
member_protocol(s, ids, protocol) ==
    IF ids = <<>> THEN protocol
    ELSE LET protocol_version == s.service_protocols[admin_service_id(Head(ids))]
         IN member_protocol(s, Tail(ids),
                IF protocol_version # 0 /\ protocol_version < protocol
                THEN protocol_version ELSE protocol)

CircuitProposalContext(circuit_proposal, signer_public_key, action) ==
    [circuit_proposal |-> circuit_proposal, signer_public_key |-> signer_public_key,
     action |-> action]

propose_change(s, circuit_payload, perm) ==
    LET payload_res == validate_circuit_management_payload(circuit_payload)
        signature_res == verify_signature(circuit_payload)
        signer_public_key == circuit_payload.requester
        requester_node_id == circuit_payload.requester_node_id
    IN IF ~IsOk(payload_res) THEN Return(s, payload_res)
       ELSE IF ~IsOk(signature_res)
       THEN Return(s, Err("ValidationFailed", "Unable to verify signature"))
       ELSE CASE circuit_payload.action = "CIRCUIT_CREATE_REQUEST" ->
                LET proposed_circuit == get_circuit_create_request(circuit_payload)
                    ids == member_ids(proposed_circuit)
                    protocol == member_protocol(s, ids, ADMIN_SERVICE_PROTOCOL_VERSION)
                    r == validate_create_circuit(s, proposed_circuit, signer_public_key,
                                                 requester_node_id, protocol, perm)
                    circuit_proposal ==
                        [proposal_type |-> "CREATE",
                         circuit_id |-> proposed_circuit.circuit_id,
                         circuit_hash |-> sha256(proposed_circuit),
                         circuit_proposal |-> proposed_circuit,
                         requester |-> signer_public_key,
                         requester_node_id |-> requester_node_id,
                         votes |-> <<>>]
                IN IF ~IsOk(r) THEN Return(remove_peer_refs(s, ids), r)
                   ELSE Return([s EXCEPT !.pending_changes =
                                    Some(CircuitProposalContext(circuit_proposal,
                                             signer_public_key, "CIRCUIT_CREATE_REQUEST"))],
                               OkRes)
              [] circuit_payload.action = "CIRCUIT_PROPOSAL_VOTE" ->
                LET proposal_vote == get_circuit_proposal_vote(circuit_payload)
                IN IF ~IsSome(s.proposals[proposal_vote.circuit_id])
                   THEN Return(s, Err("ValidationFailed",
                                      "Received vote for a proposal that does not exist"))
                   ELSE
                   LET circuit_proposal == Unwrap(s.proposals[proposal_vote.circuit_id])
                       r == validate_circuit_vote(proposal_vote, signer_public_key,
                                                  circuit_proposal, requester_node_id, perm)
                       vote_record == VoteRecord(signer_public_key,
                                                 Vote_from_proto(proposal_vote.vote),
                                                 requester_node_id)
                       proto_circuit_proposal ==
                           StoreProposal_into_proto(
                               [circuit_proposal EXCEPT !.votes = Append(@, vote_record)])
                   IN IF ~IsOk(r)
                      THEN IF circuit_proposal.proposal_type = "Create"
                           THEN Return(remove_peer_refs(s, member_ids(circuit_proposal.circuit)), r)
                           ELSE Return(s, r)
                      ELSE IF proposal_vote.vote = "UNSET_VOTE"
                      THEN Return(s, Err("ValidationFailed", "Vote is unset"))
                      ELSE Return([s EXCEPT !.pending_changes =
                                       Some(CircuitProposalContext(proto_circuit_proposal,
                                                signer_public_key, "CIRCUIT_PROPOSAL_VOTE"))],
                                  OkRes)
              [] circuit_payload.action = "CIRCUIT_DISBAND_REQUEST" ->
                LET circuit_id == get_circuit_disband_request(circuit_payload)
                    made == make_disband_request_circuit_proposal(
                                s, circuit_id, signer_public_key, requester_node_id)
                IN IF ~IsSome(made)
                   THEN Return(s, Err("ValidationFailed",
                            "Received disband request for a circuit that does not exist"))
                   ELSE
                   LET circuit_proposal == Unwrap(made)
                       ids == member_ids(circuit_proposal.circuit_proposal)
                       protocol == member_protocol(s, ids, ADMIN_SERVICE_PROTOCOL_VERSION)
                       r == validate_disband_circuit(s, circuit_proposal.circuit_proposal,
                                signer_public_key, requester_node_id, protocol, perm)
                   IN IF ~IsOk(r) THEN Return(s, r)
                      ELSE Return([s EXCEPT !.pending_changes =
                                       Some(CircuitProposalContext(circuit_proposal,
                                                signer_public_key, "CIRCUIT_DISBAND_REQUEST"))],
                                  OkRes)
              [] circuit_payload.action = "ACTION_UNSET" ->
                Return(s, Err("ValidationFailed", "Action must be set"))
              [] OTHER ->
                Return(s, Err("ValidationFailed", "Unable to handle action"))

(***************************************************************************)
(* Readiness of a committed circuit.  An UninitializedCircuit is the       *)
(* committed proposal (once this node has committed it) and the members    *)
(* whose MEMBER_READY has arrived.                                         *)
(***************************************************************************)
UninitializedCircuit(circuit, ready_members) ==
    [circuit |-> circuit, ready_members |-> ready_members]

\* ready as soon as one member is
members_ready_one(record) ==
    /\ IsSome(record)
    /\ IsSome(Unwrap(record).circuit)
    /\ RangeOf(member_ids(Unwrap(Unwrap(record).circuit).circuit_proposal))
           \cap Unwrap(record).ready_members # {}

\* all_members.is_subset(&ready_members), for a record that has its circuit
members_ready(record) ==
    /\ IsSome(record)
    /\ IsSome(Unwrap(record).circuit)
    /\ RangeOf(member_ids(Unwrap(Unwrap(record).circuit).circuit_proposal))
           \subseteq Unwrap(record).ready_members

\* the same with the record left in uninitialized_circuits
initialize_services_if_members_ready_kept(s, circuit_id, orch) ==
    IF members_ready(s.uninitialized_circuits[circuit_id])
    THEN LET circuit_proposal == Unwrap(Unwrap(s.uninitialized_circuits[circuit_id]).circuit)
             s2 == initialize_services(s, circuit_proposal.circuit_proposal, orch)
         IN IF ~IsOk(s2.res) THEN s2
            ELSE Return(send_event(s2, circuit_proposal.circuit_proposal.circuit_management_type,
                           AdminServiceEvent("CircuitReady", circuit_proposal)), OkRes)
    ELSE Return(s, OkRes)

initialize_services_if_members_ready(s, circuit_id, orch) ==
    IF members_ready(s.uninitialized_circuits[circuit_id])
    THEN LET circuit_proposal == Unwrap(Unwrap(s.uninitialized_circuits[circuit_id]).circuit)
             s1 == [s EXCEPT !.uninitialized_circuits[circuit_id] = NoneV]
             s2 == initialize_services(s1, circuit_proposal.circuit_proposal, orch)
         IN IF ~IsOk(s2.res) THEN s2
            ELSE Return(send_event(s2, circuit_proposal.circuit_proposal.circuit_management_type,
                           AdminServiceEvent("CircuitReady", circuit_proposal)), OkRes)
    ELSE Return(s, OkRes)

\* the record of circuit_id, made if there is none, with one more ready member
with_ready_member(record, member_node_id) ==
    IF IsSome(record)
    THEN Some([Unwrap(record) EXCEPT !.ready_members = @ \cup {member_node_id}])
    ELSE Some(UninitializedCircuit(NoneV, {member_node_id}))

add_uninitialized_circuit(s, circuit, orch) ==
    LET circuit_id == circuit.circuit_id
        record == s.uninitialized_circuits[circuit_id]
        with_circuit ==
            IF IsSome(record) THEN Some([Unwrap(record) EXCEPT !.circuit = Some(circuit)])
            ELSE Some(UninitializedCircuit(Some(circuit), {}))
        s1 == [s EXCEPT !.uninitialized_circuits[circuit_id] =
                   with_ready_member(with_circuit, node_id)]
    IN initialize_services_if_members_ready(s1, circuit_id, orch)

add_ready_member(s, circuit_id, member_node_id, orch) ==
    LET s1 == [s EXCEPT !.uninitialized_circuits[circuit_id] =
                   with_ready_member(@, member_node_id)]
    IN initialize_services_if_members_ready(s1, circuit_id, orch)

(***************************************************************************)
(* Readiness of a disbanded circuit: the same bookkeeping, for the         *)
(* DISBANDED_CIRCUIT messages; when every member is ready the event is     *)
(* emitted, the services are stopped, the routing entry and the peer refs  *)
(* are removed.                                                            *)
(***************************************************************************)
cleanup_disbanded_circuit_if_members_ready(s, circuit_id, orch) ==
    IF members_ready(s.pending_consensus_disbanded_circuits[circuit_id])
    THEN LET circuit_proposal ==
                 Unwrap(Unwrap(s.pending_consensus_disbanded_circuits[circuit_id]).circuit)
             s1 == [s EXCEPT !.pending_consensus_disbanded_circuits[circuit_id] = NoneV]
             s2 == send_event(s1, circuit_proposal.circuit_proposal.circuit_management_type,
                           AdminServiceEvent("CircuitDisbanded", circuit_proposal))
             s3 == stop_services(s2, circuit_proposal.circuit_proposal, orch)
         IN IF ~IsOk(s3.res) THEN s3
            ELSE Return(remove_peer_refs([s3 EXCEPT !.routing = @ \ {circuit_id}],
                                         member_ids(circuit_proposal.circuit_proposal)),
                        OkRes)
    ELSE Return(s, OkRes)

add_pending_disbanded_circuit(s, circuit, orch) ==
    LET circuit_id == circuit.circuit_id
        record == s.pending_consensus_disbanded_circuits[circuit_id]
        with_circuit ==
            IF IsSome(record) THEN Some([Unwrap(record) EXCEPT !.circuit = Some(circuit)])
            ELSE Some(UninitializedCircuit(Some(circuit), {}))
        s1 == [s EXCEPT !.pending_consensus_disbanded_circuits[circuit_id] =
                   with_ready_member(with_circuit, node_id)]
    IN cleanup_disbanded_circuit_if_members_ready(s1, circuit_id, orch)

add_member_ready_to_disband(s, circuit_id, member_node_id, orch) ==
    LET s1 == [s EXCEPT !.pending_consensus_disbanded_circuits[circuit_id] =
                   with_ready_member(@, member_node_id)]
    IN cleanup_disbanded_circuit_if_members_ready(s1, circuit_id, orch)

(***************************************************************************)
(* commit: consensus has agreed on the pending change.                     *)
(***************************************************************************)
\* the pending change is left in its slot
commit_keeps_slot(s, orch) ==
    IF ~IsSome(s.pending_changes)
    THEN Return(s, Err("NoPendingChanges", ""))
    ELSE LET circuit_proposal == Unwrap(s.pending_changes).circuit_proposal
         IN Return(send_event(s, circuit_proposal.circuit_proposal.circuit_management_type,
                              AdminServiceEvent("ProposalAccepted", circuit_proposal)),
                   OkRes)

commit(s, orch) ==
    IF ~IsSome(s.pending_changes)
    THEN Return(s, Err("NoPendingChanges", ""))
    ELSE
    LET circuit_proposal_context == Unwrap(s.pending_changes)
        circuit_proposal == circuit_proposal_context.circuit_proposal
        action == circuit_proposal_context.action
        circuit_id == circuit_proposal.circuit_id
        status == circuit_proposal.circuit_proposal.circuit_status
        ids == member_ids(circuit_proposal.circuit_proposal)
        s0 == [s EXCEPT !.pending_changes = NoneV]
        approved == check_approved(circuit_proposal)
    IN CASE approved = "Accepted" /\ status = "DISBANDED" ->
            LET store_circuit == StoreCircuit_try_from(circuit_proposal.circuit_proposal)
                s1 == store_update_circuit(s0, store_circuit)
                s2 == remove_proposal(s1, circuit_id)
                s3 == send_event(s2, circuit_proposal.circuit_proposal.circuit_management_type,
                           AdminServiceEvent("ProposalAccepted", circuit_proposal))
                s4 == send_to_members(s3, ids, "DISBANDED_CIRCUIT", circuit_id)
            IN IF ~IsOk(s1.res) THEN s1
               ELSE add_pending_disbanded_circuit(s4, circuit_proposal, orch)
         [] approved = "Accepted" /\ status \in {"ACTIVE", "UNSET_CIRCUIT_STATUS"} ->
            LET s1 == store_upgrade_proposal_to_circuit(s0, circuit_id)
                s2 == [s1 EXCEPT !.routing = @ \cup {circuit_id}]
                s3 == send_event(s2, circuit_proposal.circuit_proposal.circuit_management_type,
                           AdminServiceEvent("ProposalAccepted", circuit_proposal))
                s4 == send_to_members(s3, member_ids(Unwrap(s1.circuits[circuit_id])),
                                      "MEMBER_READY", circuit_id)
            IN IF ~IsOk(s1.res) THEN s1
               ELSE add_uninitialized_circuit(s4, circuit_proposal, orch)
         [] approved = "Accepted" -> Return(s0, OkRes)
         [] approved = "Pending" ->
            LET s1 == add_proposal(s0, circuit_proposal)
            IN IF ~IsOk(s1.res) THEN s1
               ELSE CASE action = "CIRCUIT_CREATE_REQUEST" ->
                        Return(send_event(s1, circuit_proposal.circuit_proposal.circuit_management_type,
                           AdminServiceEvent("ProposalSubmitted", circuit_proposal)),
                               OkRes)
                      [] action = "CIRCUIT_PROPOSAL_VOTE" ->
                        Return(send_event(s1, circuit_proposal.circuit_proposal.circuit_management_type,
                           AdminServiceEvent("ProposalVote", circuit_proposal)),
                               OkRes)
                      [] action = "CIRCUIT_DISBAND_REQUEST" ->
                        Return(send_event(s1, circuit_proposal.circuit_proposal.circuit_management_type,
                           AdminServiceEvent("ProposalSubmitted", circuit_proposal)),
                               OkRes)
                      [] OTHER -> Return(s1, Err("UnknownAction", "Received unknown action"))
         [] OTHER ->
            LET proposal == s0.proposals[circuit_id]
                s1 == remove_proposal(s0, circuit_id)
                s2 == IF IsSome(proposal)
                      THEN remove_peer_refs(s1, member_ids(Unwrap(proposal).circuit))
                      ELSE s1
            IN Return(send_event(s2, circuit_proposal.circuit_proposal.circuit_management_type,
                           AdminServiceEvent("ProposalRejected", circuit_proposal)), OkRes)

(***************************************************************************)
(* rollback: consensus has dropped the pending change.                     *)
(***************************************************************************)
\* the change is discarded with the peer refs of its members
rollback_releases(s) ==
    IF IsSome(s.pending_changes)
    THEN Return(remove_peer_refs([s EXCEPT !.pending_changes = NoneV],
                    member_ids(Unwrap(s.pending_changes).circuit_proposal.circuit_proposal)),
                OkRes)
    ELSE Return(s, OkRes)

rollback(s) == Return([s EXCEPT !.pending_changes = NoneV], OkRes)

(***************************************************************************)
(* handle_proposed_circuit: a proposal another node made arrives with its  *)
(* payload.  proposal.id identifies the payload; the pending consensus     *)
(* proposals are kept as the set of their payloads.                        *)
(***************************************************************************)
add_pending_consensus_proposal(s, payload) ==
    [s EXCEPT !.pending_consensus_proposals = @ \cup {payload}]

ProposalReceived(payload, message_sender) ==
    [to |-> "consensus", type |-> "ProposalReceived", circuit_id |-> <<>>]

handle_proposed_circuit(s, payload, message_sender, bad_peer) ==
    LET has_create == IsSome(payload.create)
        ids == IF has_create THEN member_ids(get_circuit_create_request(payload)) ELSE <<>>
        s1 == IF has_create THEN add_member_peer_refs(s, ids, <<>>, bad_peer)
              ELSE Return(s, OkRes)
        pending_peers == IF has_create THEN missing_protocol_nodes(s, ids) ELSE <<>>
        missing_protocol_ids == to_service_ids(pending_peers)
    IN IF ~IsOk(s1.res) THEN Return(s1, Err("UnableToHandleMessage", s1.res.msg))
       ELSE IF IsSome(payload.disband) /\ ids # <<>>
       THEN Return(s1, Err("UnableToHandleMessage", "Invalid payload; has two requests"))
       ELSE IF IsSome(payload.disband)
                /\ ~IsSome(s.circuits[get_circuit_disband_request(payload)])
       THEN Return(s1, Err("UnableToHandleMessage", "unable to get circuit"))
       ELSE IF missing_protocol_ids = <<>>
       THEN Return([add_pending_consensus_proposal(s1, payload) EXCEPT
                        !.sent = Append(@, ProposalReceived(payload, message_sender))],
                   OkRes)
       ELSE Return([s1 EXCEPT !.pending_protocol_payloads =
                        Append(@, PendingPayload(pending_peers, missing_protocol_ids,
                                                 "Consensus", payload, ids, message_sender))],
                   OkRes)

(***************************************************************************)
(* on_peer_disconnected: the agreed protocol of the peer is forgotten; a   *)
(* payload of the protocol queue that names the peer goes back to the      *)
(* unpeered queue, and the payloads of the unpeered queue wait for it.     *)
(***************************************************************************)
on_peer_disconnected(s, peer_id) ==
    LET marked == [i \in DOMAIN s.pending_protocol_payloads |->
                      LET p == s.pending_protocol_payloads[i]
                      IN IF peer_id \in RangeOf(p.members)
                         THEN [p EXCEPT !.missing_protocol_ids = Append(@, peer_id)]
                         ELSE p]
        peering == SelectSeq(marked, LAMBDA p : peer_id \in RangeOf(p.missing_protocol_ids))
        protocol == SelectSeq(marked, LAMBDA p : peer_id \notin RangeOf(p.missing_protocol_ids))
        unpeered == [i \in DOMAIN s.unpeered_payloads |->
                        LET p == s.unpeered_payloads[i]
                        IN IF peer_id \in RangeOf(p.members)
                           THEN [p EXCEPT !.unpeered_ids = Append(@, peer_id)]
                           ELSE p]
    IN Return([s EXCEPT !.service_protocols[admin_service_id(peer_id)] = 0,
                        !.pending_protocol_payloads = protocol,
                        !.unpeered_payloads = unpeered \o peering],
              OkRes)

(***************************************************************************)
(* on_peer_connected: the payloads that waited for this peer alone move to *)
(* the protocol queue; a protocol request is sent unless one is agreed.    *)
(***************************************************************************)
\* on_peer_connected with the fully peered payloads put in the ready queue
on_peer_connected_releases(s, peer_id) ==
    LET unpeered == [i \in DOMAIN s.unpeered_payloads |->
                        [s.unpeered_payloads[i] EXCEPT !.unpeered_ids =
                             SelectSeq(@, LAMBDA unpeered_id : unpeered_id # peer_id)]]
        fully_peered == SelectSeq(unpeered, LAMBDA p : p.unpeered_ids = <<>>)
        still_unpeered == SelectSeq(unpeered, LAMBDA p : p.unpeered_ids # <<>>)
    IN Return([s EXCEPT !.unpeered_payloads = still_unpeered,
                        !.pending_circuit_payloads =
                            @ \o [i \in DOMAIN fully_peered |->
                                     fully_peered[i].payload_type.payload]],
              OkRes)

on_peer_connected(s, peer_id) ==
    LET unpeered == [i \in DOMAIN s.unpeered_payloads |->
                        [s.unpeered_payloads[i] EXCEPT !.unpeered_ids =
                             SelectSeq(@, LAMBDA unpeered_id : unpeered_id # peer_id)]]
        fully_peered == SelectSeq(unpeered, LAMBDA p : p.unpeered_ids = <<>>)
        still_unpeered == SelectSeq(unpeered, LAMBDA p : p.unpeered_ids # <<>>)
        s1 == [s EXCEPT !.unpeered_payloads = still_unpeered,
                        !.pending_protocol_payloads = @ \o fully_peered]
    IN IF peer_id = admin_service_id(node_id) THEN Return(s1, OkRes)
       ELSE IF has_protocol(s1, peer_id) THEN Return(s1, OkRes)
       ELSE Return([s1 EXCEPT !.sent = Append(@, ProtocolRequest(peer_id))], OkRes)

(***************************************************************************)
(* on_protocol_agreement: the peer's admin service answered the protocol   *)
(* request; protocol 0 says that no version is shared.                     *)
(***************************************************************************)
\* for pending_payload in ready { for peer in members { remove_peer_ref } }
RECURSIVE remove_peer_refs_of(_, _)
remove_peer_refs_of(s, ready) ==
    IF ready = <<>> THEN s
    ELSE remove_peer_refs_of(remove_peer_refs(s, Head(ready).members), Tail(ready))

\* the ready payloads go to consensus: the ready queue or the pending proposals
RECURSIVE release_ready(_, _)
release_ready(s, ready) ==
    IF ready = <<>> THEN s
    ELSE LET pending_payload == Head(ready)
             payload == pending_payload.payload_type.payload
         IN release_ready(
                IF pending_payload.payload_type.kind = "Circuit"
                THEN [s EXCEPT !.pending_circuit_payloads = Append(@, payload)]
                ELSE [add_pending_consensus_proposal(s, payload) EXCEPT
                          !.sent = Append(@, ProposalReceived(payload,
                                                 pending_payload.message_sender))],
                Tail(ready))

on_protocol_agreement(s, service_id, protocol) ==
    LET updated == [i \in DOMAIN s.pending_protocol_payloads |->
                       LET p == s.pending_protocol_payloads[i]
                       IN IF protocol = 0
                          THEN IF service_id \in RangeOf(p.missing_protocol_ids)
                               THEN [p EXCEPT !.missing_protocol_ids = <<>>]
                               ELSE p
                          ELSE [p EXCEPT !.missing_protocol_ids =
                                    SelectSeq(@, LAMBDA id : id # service_id)]]
        ready == SelectSeq(updated, LAMBDA p : p.missing_protocol_ids = <<>>)
        waiting == SelectSeq(updated, LAMBDA p : p.missing_protocol_ids # <<>>)
        s1 == [s EXCEPT !.pending_protocol_payloads = waiting]
    IN IF protocol = 0
       THEN Return(remove_peer_refs_of(s1, ready), OkRes)
       ELSE Return(release_ready([s1 EXCEPT !.service_protocols[service_id] = protocol],
                                 ready),
                   OkRes)

(***************************************************************************)
(* The inputs.  One circuit id is in use; the circuit definitions a run    *)
(* may propose are a well-formed two-member circuit and ill-formed         *)
(* variants of it.                                                         *)
(***************************************************************************)
CID == <<"a","b","c","D","E","-","F","0","1","2","3">>
BadCID == <<"a","b","c","D","E","F","0","1","2","3">>
CircuitIds == {CID, BadCID, <<>>}

SplinterNode(n, endpoints) == [node_id |-> n, endpoints |-> endpoints]
SplinterService(service_id, n) ==
    [service_id |-> service_id, service_type |-> "echo", allowed_nodes |-> n]

GoodCircuit ==
    [circuit_id |-> CID,
     roster |-> <<SplinterService(<<"a","0","0","0">>, <<"node_a">>),
                  SplinterService(<<"b","0","0","0">>, <<"node_b">>)>>,
     members |-> <<SplinterNode("node_a", <<"tcp://a">>),
                   SplinterNode("node_b", <<"tcp://b">>)>>,
     authorization_type |-> "TRUST_AUTHORIZATION",
     persistence |-> "ANY_PERSISTENCE", durability |-> "NO_DURABILITY",
     routes |-> "ANY_ROUTE", circuit_management_type |-> "gameroom",
     display_name |-> "", circuit_version |-> CIRCUIT_PROTOCOL_VERSION,
     circuit_status |-> "UNSET_CIRCUIT_STATUS"]

\* the circuit of this node alone
SoloCircuit ==
    [GoodCircuit EXCEPT !.members = <<SplinterNode(node_id, <<"tcp://a">>)>>,
                        !.roster = <<SplinterService(<<"a","0","0","0">>, <<node_id>>)>>]

CircuitInputs ==
    {GoodCircuit,
     \* node_a lists one endpoint twice
     [GoodCircuit EXCEPT !.members[1].endpoints = <<"tcp://a", "tcp://a">>],
     \* node_b lists the endpoint of node_a
     [GoodCircuit EXCEPT !.members[2].endpoints = <<"tcp://a">>],
     \* the local node is no member
     [GoodCircuit EXCEPT !.members = <<SplinterNode("node_b", <<"tcp://b">>)>>,
                         !.roster = <<SplinterService(<<"b","0","0","0">>, <<"node_b">>)>>],
     \* a member twice
     [GoodCircuit EXCEPT !.members[2] = SplinterNode("node_a", <<"tcp://b">>),
                         !.roster[2].allowed_nodes = <<"node_a">>],
     \* a service twice, a service with two allowed nodes, a service of a stranger
     [GoodCircuit EXCEPT !.roster[2].service_id = <<"a","0","0","0">>],
     [GoodCircuit EXCEPT !.roster[2].allowed_nodes = <<"node_a", "node_b">>],
     [GoodCircuit EXCEPT !.roster[2].allowed_nodes = <<"node_c">>],
     [GoodCircuit EXCEPT !.roster = <<>>],
     [GoodCircuit EXCEPT !.circuit_id = BadCID],
     \* a third member, which runs no service
     [GoodCircuit EXCEPT !.members = Append(@, SplinterNode("node_c", <<"tcp://c">>))],
     \* the schema of protocol 1, with a display name, with a status; a later schema
     [GoodCircuit EXCEPT !.circuit_version = 0],
     [GoodCircuit EXCEPT !.circuit_version = 0, !.display_name = "name"],
     [GoodCircuit EXCEPT !.circuit_version = 0, !.circuit_status = "ACTIVE"],
     [GoodCircuit EXCEPT !.circuit_version = CIRCUIT_PROTOCOL_VERSION + 1],
     \* the circuit of this node alone, with a status set by the requester
     [SoloCircuit EXCEPT !.circuit_status = "ABANDONED"],
     [SoloCircuit EXCEPT !.circuit_status = "DISBANDED"],
     \* the circuit of this node alone, with two services
     [SoloCircuit EXCEPT !.roster = Append(@, SplinterService(<<"a","0","0","1">>,
                                                              <<node_id>>))]}


Payload(action, n) ==
    [action |-> action, requester |-> Key(n, KEY_LEN), requester_node_id |-> n,
     signature |-> "good", header_empty |-> FALSE,
     create |-> NoneV, vote |-> NoneV, disband |-> NoneV, purge |-> NoneV,
     abandon |-> NoneV]

CreatePayload(n, circuit) ==
    [Payload("CIRCUIT_CREATE_REQUEST", n) EXCEPT !.create = Some(circuit)]
VotePayload(n, vote, circuit_hash) ==
    [Payload("CIRCUIT_PROPOSAL_VOTE", n) EXCEPT
        !.vote = Some([circuit_id |-> CID, circuit_hash |-> circuit_hash, vote |-> vote])]
DisbandPayload(n) == [Payload("CIRCUIT_DISBAND_REQUEST", n) EXCEPT !.disband = Some(CID)]
PurgePayload(n) == [Payload("CIRCUIT_PURGE_REQUEST", n) EXCEPT !.purge = Some(CID)]
AbandonPayload(n) == [Payload("CIRCUIT_ABANDON", n) EXCEPT !.abandon = Some(CID)]

\* the hash a voter reads off the proposal to create, or to disband, the circuit
CreateHash(circuit) == sha256(circuit)
DisbandHash(circuit) ==
    sha256(StoreCircuit_into_proto(
               StoreCircuit_from_proposed(Unwrap(ProposedCircuit_from_proto(circuit))),
               "DISBANDED"))


\* a variant with a signature that cannot be read and a wrongly keyed one
SomeFaults(p) ==
    {[p EXCEPT !.signature = "junk"], [p EXCEPT !.requester = Key("node_c", KEY_LEN)]}

\* the well-formed payloads handed in at this node
LocalRequests(circuit) ==
    {CreatePayload(node_id, circuit), DisbandPayload(node_id), PurgePayload(node_id),
     AbandonPayload(node_id),
     VotePayload(node_id, "ACCEPT", CreateHash(circuit)),
     VotePayload(node_id, "REJECT", CreateHash(circuit)),
     VotePayload(node_id, "ACCEPT", sha256(<<>>))}

\* the other payloads handed in at this node: the ways the request to create
\* a circuit can be ill-formed or ill-signed, and some for the other requests
LocalFaults(circuit) ==
    LET p == CreatePayload(node_id, circuit)
    IN {[p EXCEPT !.signature = "bad"], [p EXCEPT !.signature = "junk"],
        [p EXCEPT !.signature = ""], [p EXCEPT !.header_empty = TRUE],
        [p EXCEPT !.requester = Key("nobody", 0)],
        [p EXCEPT !.requester = Key(p.requester_node_id, KEY_LEN - 1)],
        [p EXCEPT !.requester = Key("node_c", KEY_LEN)],
        [p EXCEPT !.requester_node_id = ""]}
        \cup SomeFaults(VotePayload(node_id, "ACCEPT", CreateHash(circuit)))
        \cup SomeFaults(DisbandPayload(node_id))
        \cup SomeFaults(PurgePayload(node_id))
        \cup SomeFaults(AbandonPayload(node_id))
        \cup {Payload("ACTION_UNSET", node_id)}


\* submit's inputs: the payload, the answer of the permission manager, the peer
\* the connector fails for, the answer of the orchestrator; the last one is a
\* request handed in here in the name of node_b
SubmitInputs(circuit) ==
    (LocalRequests(circuit) \X {"true"} \X {"none"} \X {"ok"})
        \cup ({CreatePayload(node_id, circuit)} \X {"true"} \X {"node_b"} \X {"ok"})
        \cup ({PurgePayload(node_id), AbandonPayload(node_id)}
                  \X {"true"} \X {"none"} \X {"fail"})
        \cup ({AbandonPayload("node_b")} \X {"true"} \X {"none"} \X {"ok"})

\* the same with a permission manager that refuses or fails, and with the
\* ill-formed and ill-signed payloads
FaultInputs(circuit) ==
    SubmitInputs(circuit)
        \cup (LocalRequests(circuit) \X {"false", "error"} \X {"none"} \X {"ok"})
        \cup (LocalFaults(circuit) \X {"true"} \X {"none"} \X {"ok"})
        \cup ({CreatePayload(node_id, circuit)} \X {"true"} \X {"node_c"} \X {"ok"})

\* the payloads of the proposals other nodes send
RemotePayloads(circuit) ==
    {CreatePayload("node_b", circuit),
     [CreatePayload("node_b", circuit) EXCEPT !.signature = "junk"],
     VotePayload("node_b", "ACCEPT", CreateHash(circuit)),
     VotePayload("node_b", "REJECT", CreateHash(circuit)),
     VotePayload("node_b", "ACCEPT", DisbandHash(circuit)),
     VotePayload("node_b", "REJECT", DisbandHash(circuit)),
     VotePayload("node_b", "ACCEPT", sha256(<<>>)),
     VotePayload("node_c", "ACCEPT", CreateHash(circuit))}

\* handle_proposed_circuit's inputs: the payload, the peer the connector fails for
HandleInputs(circuit) ==
    (RemotePayloads(circuit) \X {"none"})
        \cup ({CreatePayload("node_b", circuit)} \X {"node_b"})

\* the proposal of the other member and its votes
FewHandleInputs(circuit) ==
    {CreatePayload("node_b", circuit),
     VotePayload("node_b", "ACCEPT", CreateHash(circuit)),
     VotePayload("node_b", "REJECT", CreateHash(circuit))} \X {"none"}


(***************************************************************************)
(* The state machine.  Init is the coordinator as AdminServiceShared::new  *)
(* leaves it, with an empty store.                                         *)
(***************************************************************************)
Idle == [op |-> "idle"]

(***************************************************************************)
(* network::dispatch.  A dispatcher keeps one handler for a message type   *)
(* and the sender the handlers answer with.  A handler is known by its     *)
(* name; the form of the bytes of a message decides what comes of handling *)
(* it: "echo" is handled, "garbled" cannot be read as the message of the   *)
(* handler, "refused" is read and the handler returns an error.            *)
(***************************************************************************)
MessageTypes == {"NETWORK_ECHO", "NETWORK_HEARTBEAT"}

\* the handlers there are: the name and what match_type returns; two of them
\* are for the same message type
Handlers ==
    {[name |-> "NetworkEchoHandler", match_type |-> "NETWORK_ECHO"],
     [name |-> "LoggingEchoHandler", match_type |-> "NETWORK_ECHO"],
     [name |-> "HeartbeatHandler", match_type |-> "NETWORK_HEARTBEAT"]}

\* the closure set_handler wraps the handler in: the bytes are read as the
\* message of the handler, then the handler handles the message
HandlerWrapper_handle(handler, message_bytes) ==
    IF message_bytes.form = "garbled" THEN Err("DeserializationError", handler)
    ELSE IF message_bytes.form = "refused" THEN Err("HandleError", handler)
    ELSE OkRes

\* dispatch that looks for the handler before it looks for the network sender
dispatch_handler_first(d, source_id, message_type, message_bytes) ==
    IF ~IsSome(d.handlers[message_type])
    THEN [res |-> Err("UnknownMessageType", message_type), invoked |-> <<>>]
    ELSE IF ~IsSome(d.network_sender)
    THEN [res |-> Err("MissingNetworkSender", ""), invoked |-> <<>>]
    ELSE [res |-> HandlerWrapper_handle(Unwrap(d.handlers[message_type]), message_bytes),
          invoked |-> <<Unwrap(d.handlers[message_type])>>]

\* dispatch: the result, and the handlers that were invoked
dispatch(d, source_id, message_type, message_bytes) ==
    IF IsSome(d.network_sender)
    THEN IF ~IsSome(d.handlers[message_type])
         THEN [res |-> Err("UnknownMessageType", message_type), invoked |-> <<>>]
         ELSE LET handler == Unwrap(d.handlers[message_type])
              IN [res |-> HandlerWrapper_handle(handler, message_bytes),
                  invoked |-> <<handler>>]
    ELSE [res |-> Err("MissingNetworkSender", ""), invoked |-> <<>>]


\* the coordinator as AdminServiceShared::new leaves it, and the dispatcher
\* as Dispatcher::default leaves it, with no dispatch loop built
Fresh ==
    /\ proposals = [c \in CircuitIds |-> NoneV]
    /\ circuits = [c \in CircuitIds |-> NoneV]
    /\ routing = {}
    /\ peer_refs = [n \in Nodes |-> 0]
    /\ service_protocols = [id \in {admin_service_id(n) : n \in Nodes} |-> 0]
    /\ unpeered_payloads = <<>>
    /\ pending_protocol_payloads = <<>>
    /\ pending_circuit_payloads = <<>>
    /\ pending_consensus_proposals = {}
    /\ pending_changes = NoneV
    /\ uninitialized_circuits = [c \in CircuitIds |-> NoneV]
    /\ pending_consensus_disbanded_circuits = [c \in CircuitIds |-> NoneV]
    /\ events = <<>>
    /\ services = {}
    /\ event_subscribers = [t \in {"gameroom", "other"} |-> <<>>]
    /\ handled = [id \in {"s1", "s2"} |-> <<>>]
    /\ dispatcher = [handlers |-> [mt \in MessageTypes |-> NoneV], network_sender |-> NoneV]
    /\ join_handle = "none"
    /\ rx = <<>>
    /\ senders = {}
    /\ taken = <<>>

Init ==
    /\ Fresh
    /\ offered = GoodCircuit
    /\ capacity = MaxPending
    /\ event_store = "ok"
    /\ last = Idle

\* the payloads between their admission and the commit or rollback
InFlight(s) ==
    Len(s.unpeered_payloads) + Len(s.pending_protocol_payloads)
        + Len(s.pending_circuit_payloads) + Cardinality(s.pending_consensus_proposals)
        + (IF IsSome(s.pending_changes) THEN 1 ELSE 0)

\* the bounds of the model: payloads in flight, the peers a waiting payload
\* lists, peer refs held, events logged
Bounded(s) ==
    /\ InFlight(s) <= capacity
    /\ \A i \in DOMAIN s.unpeered_payloads :
           /\ Len(s.unpeered_payloads[i].unpeered_ids) <= MaxIds
           /\ Len(s.unpeered_payloads[i].missing_protocol_ids) <= MaxIds
    /\ \A i \in DOMAIN s.pending_protocol_payloads :
           Len(s.pending_protocol_payloads[i].missing_protocol_ids) <= MaxIds
    /\ \A n \in Nodes : s.peer_refs[n] <= MaxRefs
    /\ Len(s.events) <= MaxEvents

\* the operation has left the coordinator as s
Becomes(s) ==
    /\ Bounded(s)
    /\ proposals' = s.proposals
    /\ circuits' = s.circuits
    /\ routing' = s.routing
    /\ peer_refs' = s.peer_refs
    /\ service_protocols' = s.service_protocols
    /\ unpeered_payloads' = s.unpeered_payloads
    /\ pending_protocol_payloads' = s.pending_protocol_payloads
    /\ pending_circuit_payloads' = s.pending_circuit_payloads
    /\ pending_consensus_proposals' = s.pending_consensus_proposals
    /\ pending_changes' = s.pending_changes
    /\ uninitialized_circuits' = s.uninitialized_circuits
    /\ pending_consensus_disbanded_circuits' = s.pending_consensus_disbanded_circuits
    /\ events' = s.events
    /\ services' = s.services
    /\ event_subscribers' = s.event_subscribers
    /\ handled' = s.handled
    /\ event_store' = s.event_store
    /\ offered' = offered
    /\ capacity' = capacity
    /\ UNCHANGED loop_vars

\* what is kept of a call: the operation, the kind of its result, and of its
\* inputs the action and the signature of the payload, the answer of the
\* permission manager, the requester of the payload or the member or peer a
\* message is from, the protocol
\* version agreed, the answer of the orchestrator, the peer the connector
\* fails for
Called(op, res) ==
    [op |-> op, res |-> [kind |-> res.kind], action |-> "", signature |-> "",
     perm |-> "", member |-> "", protocol |-> 0, orch |-> "",
     bad_peer |-> "", circuit_id |-> <<>>]

CalledWith(op, res, payload, perm) ==
    [op |-> op, res |-> [kind |-> res.kind], action |-> payload.action,
     signature |-> payload.signature, perm |-> perm,
     member |-> payload.requester_node_id, protocol |-> 0,
     orch |-> "", bad_peer |-> "", circuit_id |-> <<>>]

Submit(inputs) ==
    /\ last = Idle
    /\ \E in \in inputs :
            LET s == submit(Self, in[1], in[2], in[3], in[4])
            IN /\ Becomes(s)
               /\ last' = [CalledWith("submit", s.res, in[1], in[2]) EXCEPT
                               !.bad_peer = in[3], !.orch = in[4]]

HandleProposedCircuit(inputs) ==
    /\ last = Idle
    /\ \E in \in inputs :
            LET s == handle_proposed_circuit(Self, in[1], in[1].requester_node_id, in[2])
            IN /\ Becomes(s)
               /\ last' = [CalledWith("handle_proposed_circuit", s.res, in[1], "") EXCEPT
                               !.bad_peer = in[2]]

\* consensus takes the next payload of the ready queue and asks for the
\* proposal it stands for
CreateProposal ==
    /\ last = Idle
    /\ \E perm \in {"true", "false", "error"} :
            LET payload == Head(pending_circuit_payloads)
                s == propose_change([Self EXCEPT !.pending_circuit_payloads = Tail(@)],
                                    payload, perm)
            IN /\ pending_circuit_payloads # <<>>
               /\ pending_changes = NoneV
               /\ Becomes(s)
               /\ last' = CalledWith("propose_change", s.res, payload, perm)

\* consensus checks a proposal another node made
CheckProposal ==
    /\ last = Idle
    /\ \E payload \in pending_consensus_proposals, perm \in {"true", "false", "error"} :
            LET s == propose_change(
                         [Self EXCEPT !.pending_consensus_proposals = @ \ {payload}],
                         payload, perm)
            IN /\ pending_changes = NoneV
               /\ Becomes(s)
               /\ last' = CalledWith("propose_change", s.res, payload, perm)

Commit ==
    /\ last = Idle
    /\ \E orch \in {"ok", "fail"} :
            LET s == commit(Self, orch)
            IN /\ Becomes(s)
               /\ last' = [Called("commit", s.res) EXCEPT !.orch = orch]

\* what is kept of the call names the action of the change it discards
Rollback ==
    LET s == rollback(Self)
    IN /\ last = Idle
       /\ Becomes(s)
       /\ last' = [Called("rollback", s.res) EXCEPT
                       !.action = IF IsSome(pending_changes)
                                  THEN Unwrap(pending_changes).action ELSE ""]

OnPeerConnected ==
    /\ last = Idle
    /\ \E peer_id \in {"node_b"} :
            LET s == on_peer_connected(Self, peer_id)
            IN /\ Becomes(s)
               /\ last' = [Called("on_peer_connected", s.res) EXCEPT !.member = peer_id]

OnPeerDisconnected ==
    /\ last = Idle
    /\ \E peer_id \in {"node_b"} :
            LET s == on_peer_disconnected(Self, peer_id)
            IN /\ Becomes(s)
               /\ last' = [Called("on_peer_disconnected", s.res) EXCEPT !.member = peer_id]

OnProtocolAgreement ==
    /\ last = Idle
    /\ \E peer_id \in {"node_b"}, protocol \in {0, ADMIN_SERVICE_PROTOCOL_MIN, ADMIN_SERVICE_PROTOCOL_VERSION} :
            LET s == on_protocol_agreement(Self, admin_service_id(peer_id), protocol)
            IN /\ Becomes(s)
               /\ last' = [Called("on_protocol_agreement", s.res) EXCEPT
                               !.member = peer_id, !.protocol = protocol]

(***************************************************************************)
(* The messages of the other members.  A member says MEMBER_READY once,    *)
(* when it has committed the accepted proposal, and DISBANDED_CIRCUIT      *)
(* once, when it has committed the accepted proposal to disband: consensus *)
(* has agreed on the proposal here too (it is the pending change), or this *)
(* node has committed it already.                                          *)
(***************************************************************************)
Agreed(proposal_type) ==
    /\ IsSome(pending_changes)
    /\ Unwrap(pending_changes).circuit_proposal.proposal_type = proposal_type
    /\ check_approved(Unwrap(pending_changes).circuit_proposal) = "Accepted"

\* a MEMBER_READY message of a member arrives
AddReadyMember ==
    /\ last = Idle
    /\ \E member_node_id \in {"node_b"}, orch \in {"ok", "fail"} :
            LET s == add_ready_member(Self, CID, member_node_id, orch)
                record == uninitialized_circuits[CID]
            IN /\ \/ IsSome(record) /\ IsSome(Unwrap(record).circuit)
                  \/ Agreed("CREATE")
               /\ IsSome(record) => member_node_id \notin Unwrap(record).ready_members
               /\ Becomes(s)
               /\ last' = [Called("add_ready_member", s.res) EXCEPT
                               !.member = member_node_id, !.orch = orch,
                               !.circuit_id = CID]

\* a MEMBER_READY message arrives, whoever sent it and whenever: a first
\* one, a repeated one, a late one, one for a circuit id nobody has proposed
MemberReadyArrives ==
    /\ last = Idle
    /\ \E circuit_id \in {CID, BadCID}, member_node_id \in {"node_b"}, orch \in {"ok", "fail"} :
            LET s == add_ready_member(Self, circuit_id, member_node_id, orch)
            IN /\ Becomes(s)
               /\ last' = [Called("add_ready_member", s.res) EXCEPT
                               !.member = member_node_id, !.orch = orch,
                               !.circuit_id = circuit_id]

\* a DISBANDED_CIRCUIT message of a member arrives
AddMemberReadyToDisband ==
    /\ last = Idle
    /\ \E member_node_id \in {"node_b"}, orch \in {"ok", "fail"} :
            LET s == add_member_ready_to_disband(Self, CID, member_node_id, orch)
                record == pending_consensus_disbanded_circuits[CID]
            IN /\ \/ IsSome(record) /\ IsSome(Unwrap(record).circuit)
                  \/ Agreed("DISBAND")
               /\ IsSome(record) => member_node_id \notin Unwrap(record).ready_members
               /\ Becomes(s)
               /\ last' = [Called("add_member_ready_to_disband", s.res)
                               EXCEPT !.member = member_node_id]

\* the caller has taken the result of the last operation
Returned ==
    /\ last # Idle
    /\ last' = Idle
    /\ UNCHANGED <<fields, offered, capacity, loop_vars>>

Next ==
    \/ Submit(SubmitInputs(offered))
    \/ HandleProposedCircuit(HandleInputs(offered))
    \/ CreateProposal
    \/ CheckProposal
    \/ Commit
    \/ Rollback
    \/ OnPeerConnected
    \/ OnPeerDisconnected
    \/ OnProtocolAgreement
    \/ AddReadyMember
    \/ AddMemberReadyToDisband
    \/ Returned

Spec == Init /\ [][Next]_vars

(***************************************************************************)
(* The coordinator with members that repeat MEMBER_READY, send it late or  *)
(* send it for a circuit id nobody has proposed, and with peers that send  *)
(* a request to disband the circuit, a payload with two requests, or a     *)
(* proposal while the connector fails.                                     *)
(***************************************************************************)
NextReady ==
    \/ Submit(SubmitInputs(offered))
    \/ HandleProposedCircuit(
           FewHandleInputs(offered)
               \cup ({DisbandPayload("node_b"),
                      [CreatePayload("node_b", offered) EXCEPT !.disband = Some(CID)]}
                         \X {"none"})
               \cup ({CreatePayload("node_b", offered)} \X {"node_b"}))
    \/ CreateProposal
    \/ CheckProposal
    \/ Commit
    \/ OnProtocolAgreement
    \/ MemberReadyArrives
    \/ Returned

SpecReady == Init /\ [][NextReady]_vars

(***************************************************************************)
(* The coordinator under ill-formed input: every circuit definition of     *)
(* CircuitInputs and every payload of LocalFaults is tried, with peers     *)
(* that stay connected.                                                    *)
(***************************************************************************)
InitFaults ==
    /\ Fresh
    /\ offered \in CircuitInputs
    /\ capacity = MaxPending
    /\ event_store = "ok"
    /\ last = Idle

NextFaults ==
    \/ Submit(FaultInputs(offered))
    \/ HandleProposedCircuit(FewHandleInputs(offered))
    \/ CreateProposal
    \/ CheckProposal
    \/ Commit
    \/ OnProtocolAgreement
    \/ AddReadyMember
    \/ Returned

SpecFaults == InitFaults /\ [][NextFaults]_vars

(***************************************************************************)
(* The coordinator of a node that is the only member of a circuit.  The    *)
(* circuit is proposed by node_b, which may propose a circuit it is no     *)
(* member of (validate_create_circuit asks for the requester's key only),  *)
(* and accepted by the vote of this node; what this node proposes then,    *)
(* the end of the circuit, is accepted without a vote, and the circuit is  *)
(* ready, and disbanded, as soon as this node is.                          *)
(***************************************************************************)
InitSolo ==
    /\ Fresh
    /\ offered = SoloCircuit
    /\ capacity = MaxPending
    /\ event_store = "ok"
    /\ last = Idle


NextSolo ==
    \/ Submit(SubmitInputs(offered)
                  \cup ({PurgePayload("node_b"), AbandonPayload("node_b")}
                            \X {"true"} \X {"none"} \X {"ok"}))
    \/ HandleProposedCircuit({CreatePayload("node_b", offered), PurgePayload("node_b"),
                             AbandonPayload("node_b")} \X {"none"})
    \/ CreateProposal
    \/ CheckProposal
    \/ Commit
    \/ Rollback
    \/ Returned

SpecSolo == InitSolo /\ [][NextSolo]_vars

(***************************************************************************)
(* The same coordinator with subscribers to its events, and with an event  *)
(* store that takes the events or fails to.  A subscriber registers once,  *)
(* for one circuit management type, and brings the answers it will give.   *)
(***************************************************************************)
AddSubscriber ==
    /\ last = Idle
    /\ \E circuit_management_type \in DOMAIN event_subscribers, id \in DOMAIN handled,
          answers \in {<<>>, <<"UnableToHandleEvent">>, <<"Unsubscribe">>} :
            /\ handled[id] = <<>>
            /\ \A t \in DOMAIN event_subscribers :
                   \A i \in DOMAIN event_subscribers[t] : event_subscribers[t][i].id # id
            /\ Becomes([Self EXCEPT !.event_subscribers[circuit_management_type] =
                            Append(@, [id |-> id, answers |-> answers])])
            /\ last' = last

InitEvents ==
    /\ Fresh
    /\ offered = SoloCircuit
    /\ capacity = MaxPending
    /\ event_store \in {"ok", "fail"}
    /\ last = Idle

NextEvents ==
    \/ AddSubscriber
    \/ NextSolo

SpecEvents == InitEvents /\ [][NextEvents]_vars

(***************************************************************************)
(* Two submissions of one client.  The client submits the request for the  *)
(* circuit of node_a and node_b when nothing is in flight, and the request *)
(* for the circuit of node_a alone while the first one waits for node_b:   *)
(* whenever both are queued, the request for the two-member circuit is the *)
(* earlier one.                                                            *)
(***************************************************************************)
InitOrder ==
    /\ Fresh
    /\ offered = GoodCircuit
    /\ capacity = MaxQueued
    /\ event_store = "ok"
    /\ last = Idle

NextOrder ==
    \/ /\ InFlight(Self) = 0
       /\ Submit({CreatePayload(node_id, offered)} \X {"true"} \X {"none"} \X {"ok"})
    \/ /\ unpeered_payloads # <<>> \/ pending_protocol_payloads # <<>>
       /\ Submit({CreatePayload(node_id, SoloCircuit)} \X {"true"} \X {"none"} \X {"ok"})
    \/ OnPeerConnected
    \/ OnPeerDisconnected
    \/ OnProtocolAgreement
    \/ CreateProposal
    \/ Commit
    \/ Rollback
    \/ Returned

SpecOrder == InitOrder /\ [][NextOrder]_vars

(***************************************************************************)
(* check_approved on its own: the tally of every proposal with up to       *)
(* MaxMembers members and MaxVotes votes, cast by members and by others.   *)
(***************************************************************************)
CheckApproved ==
    /\ last = Idle
    /\ \E members \in UNION {[1..k -> Nodes] : k \in 0..MaxMembers},
          requester \in Nodes,
          votes \in UNION {[1..k -> Nodes \X {"ACCEPT", "REJECT"}] : k \in 0..MaxVotes} :
           LET proposal ==
                   [proposal_type |-> "CREATE", circuit_id |-> CID,
                    circuit_hash |-> sha256(GoodCircuit),
                    circuit_proposal |->
                        [GoodCircuit EXCEPT !.members =
                            [i \in DOMAIN members |->
                                SplinterNode(members[i], <<"tcp://a">>)]],
                    requester |-> Key(requester, KEY_LEN),
                    requester_node_id |-> requester,
                    votes |-> [i \in DOMAIN votes |->
                                  VoteRecord(Key(votes[i][1], KEY_LEN), votes[i][2],
                                             votes[i][1])]]
           IN last' = [op |-> "check_approved", proposal |-> proposal,
                       res |-> check_approved(proposal)]
    /\ UNCHANGED <<fields, offered, capacity, loop_vars>>

NextApproved ==
    \/ CheckApproved
    \/ Returned

SpecApproved == Init /\ [][NextApproved]_vars

\* the tally as the rule states it: the votes as a set, the members without
\* the requester
Voters(proposal) == {proposal.votes[i].voter_node_id : i \in DOMAIN proposal.votes}
Rejecting(proposal) == \E i \in DOMAIN proposal.votes : proposal.votes[i].vote = "REJECT"
Required(proposal) ==
    {proposal.circuit_proposal.members[i].node_id :
         i \in DOMAIN proposal.circuit_proposal.members} \ {proposal.requester_node_id}

\* C1: check_approved answers Rejected if any vote is a REJECT, otherwise
\* Accepted exactly when the set of voters is the set of members without the
\* requester, otherwise Pending; for every choice of members, requester and
\* votes.
C1_Tally ==
    last.op = "check_approved" =>
        last.res = IF Rejecting(last.proposal) THEN "Rejected"
                   ELSE IF Voters(last.proposal) = Required(last.proposal) THEN "Accepted"
                   ELSE "Pending"

\* a circuit whose only member is the requester is accepted without a vote ...
C1_Witness ==
    /\ last.op = "check_approved"
    /\ Required(last.proposal) = {}
    /\ last.proposal.circuit_proposal.members # <<>>
    /\ last.proposal.votes = <<>>
    /\ last.res = "Accepted"

(***************************************************************************)
(* Admission of payloads.                                                  *)
(***************************************************************************)
Queues == <<unpeered_payloads, pending_protocol_payloads, pending_circuit_payloads>>

\* C2: a payload whose signature does not verify is never admitted, whether
\* the verifier reports an error or answers false: submit returns an error
\* and queues nothing, propose_change returns an error and sets no pending
\* change.
C2_UnverifiedNeverAdmitted ==
    [][/\ (last'.op = "submit" /\ last'.signature # "good")
              => (~IsOk(last'.res) /\ Queues' = Queues)
       /\ (last'.op = "propose_change" /\ last'.signature # "good")
              => (~IsOk(last'.res) /\ pending_changes' = NoneV)]_vars

\* C3: a submit that returns a validation error, for whatever action, leaves
\* the coordinator as it was: peer refs, queues, store, events and all else.
C3_FailedSubmitChangesNothing ==
    [][(/\ last'.op = "submit"
        /\ last'.res.kind \in {"ValidationFailed", "VerificationError"})
           => fields' = fields]_vars

\* a vote of the requester is refused while the proposal is in the store
C3_Witness ==
    /\ last.op = "submit"
    /\ last.res.kind = "ValidationFailed"
    /\ last.action = "CIRCUIT_PROPOSAL_VOTE"
    /\ last.signature = "good"
    /\ IsSome(proposals[CID])
    /\ peer_refs["node_b"] > 0

\* C8: a create, disband or purge without the proposer role, and a vote
\* without the voter role, is not admitted: when the permission manager
\* answers no, or fails, the validation fails and the call returns an error.
C8_RoleRequired ==
    (/\ last.op \in {"submit", "propose_change"}
     /\ last.action \in {"CIRCUIT_CREATE_REQUEST", "CIRCUIT_DISBAND_REQUEST",
                         "CIRCUIT_PURGE_REQUEST", "CIRCUIT_PROPOSAL_VOTE"}
     /\ last.perm \in {"false", "error"})
        => ~IsOk(last.res)

(***************************************************************************)
(* Votes, peer refs, readiness and events.                                 *)
(***************************************************************************)
\* C4: when propose_change refuses a vote on a stored proposal because
\* validate_circuit_vote fails (the payload itself is well-formed and
\* signed), the proposal stays in the store, the peer refs are what they
\* were and no pending change is set.
C4_RefusedVoteChangesNothing ==
    [][(/\ last'.op = "propose_change"
        /\ last'.action = "CIRCUIT_PROPOSAL_VOTE"
        /\ last'.signature = "good"
        /\ ~IsOk(last'.res)
        /\ IsSome(proposals[CID]))
           => (/\ proposals' = proposals
               /\ peer_refs' = peer_refs
               /\ pending_changes' = NoneV)]_vars

\* C5: every vote recorded on a stored proposal is the vote of a member of
\* the proposed circuit other than the requester, and no node has two votes
\* on one proposal.
C5_VotesOfMembers ==
    \A c \in CircuitIds :
        IsSome(proposals[c]) =>
            LET proposal == Unwrap(proposals[c])
                votes == proposal.votes
            IN /\ \A i \in DOMAIN votes :
                      /\ votes[i].voter_node_id \in RangeOf(member_ids(proposal.circuit))
                      /\ votes[i].voter_node_id # proposal.requester_node_id
               /\ \A i, j \in DOMAIN votes :
                      votes[i].voter_node_id = votes[j].voter_node_id => i = j

\* the requests to create a circuit with member p that are on their way: in a
\* queue, with consensus, or the pending change
CreatesOf(payloads, p) ==
    Cardinality({i \in DOMAIN payloads :
                     /\ payloads[i].action = "CIRCUIT_CREATE_REQUEST"
                     /\ p \in RangeOf(member_ids(get_circuit_create_request(payloads[i])))})

SetToSeq(S) == CHOOSE f \in [1..Cardinality(S) -> S] : RangeOf(f) = S

PendingCreates(p) ==
    CreatesOf([i \in DOMAIN unpeered_payloads |-> unpeered_payloads[i].payload_type.payload], p)
        + CreatesOf([i \in DOMAIN pending_protocol_payloads |->
                         pending_protocol_payloads[i].payload_type.payload], p)
        + CreatesOf(pending_circuit_payloads, p)
        + CreatesOf(SetToSeq(pending_consensus_proposals), p)
        + (IF /\ IsSome(pending_changes)
              /\ Unwrap(pending_changes).action = "CIRCUIT_CREATE_REQUEST"
              /\ p \in RangeOf(member_ids(Unwrap(pending_changes).circuit_proposal.circuit_proposal))
           THEN 1 ELSE 0)
        + Cardinality({c \in CircuitIds :
                           /\ IsSome(proposals[c])
                           /\ Unwrap(proposals[c]).proposal_type = "Create"
                           /\ p \in RangeOf(member_ids(Unwrap(proposals[c]).circuit))})

ActiveCircuits(p) ==
    Cardinality({c \in CircuitIds :
                     /\ IsSome(circuits[c])
                     /\ Unwrap(circuits[c]).circuit_status = "Active"
                     /\ p \in RangeOf(member_ids(Unwrap(circuits[c])))})

\* C7: for every remote peer, the peer refs held are as many as the pending
\* proposals to create a circuit with that peer plus the Active circuits with
\* that peer.
C7_PeerRefsCounted ==
    \A p \in (Nodes \ {node_id}) : peer_refs[p] = PendingCreates(p) + ActiveCircuits(p)

(***************************************************************************)
(* The circuits of the store.                                              *)
(***************************************************************************)
\* the endpoints of a circuit, member after member
RECURSIVE Flatten(_)
Flatten(seqs) == IF seqs = <<>> THEN <<>> ELSE Head(seqs) \o Flatten(Tail(seqs))

Endpoints(circuit) ==
    Flatten([i \in DOMAIN circuit.members |-> circuit.members[i].endpoints])

Distinct(seq) == \A i, j \in DOMAIN seq : seq[i] = seq[j] => i = j

WellFormed(circuit) ==
    /\ circuit.members # <<>>
    /\ node_id \in RangeOf(member_ids(circuit))
    /\ Distinct(member_ids(circuit))
    /\ "" \notin RangeOf(member_ids(circuit))
    /\ "" \notin RangeOf(Endpoints(circuit))
    /\ Distinct(Endpoints(circuit))
    /\ circuit.roster # <<>>
    /\ Distinct([i \in DOMAIN circuit.roster |-> circuit.roster[i].service_id])
    /\ \A i \in DOMAIN circuit.roster :
           /\ Len(circuit.roster[i].allowed_nodes) = 1
           /\ circuit.roster[i].allowed_nodes[1] \in RangeOf(member_ids(circuit))

\* C6: every circuit commit has put in the store has a member, has the local
\* node among its members, has distinct non-empty member ids, has non-empty
\* endpoints that are distinct over all its members, and has a non-empty
\* roster of services with unique ids and one allowed node each, a member.
C6_StoredCircuitsWellFormed ==
    \A c \in CircuitIds : IsSome(circuits[c]) => WellFormed(Unwrap(circuits[c]))

\* C9: the services of a new circuit are initialised, and CircuitReady is
\* emitted, only by a step that finds the accepted proposal committed at this
\* node (by this step, or recorded by an earlier commit) and MEMBER_READY
\* recorded for every member of its circuit: the members recorded before,
\* with the member whose message arrives or, at the commit, this node.
CircuitReadyStep ==
    \/ /\ Len(events') = Len(events) + 1
       /\ events'[Len(events')].event_type = "CircuitReady"
    \/ services' \ services # {}

C9_ReadyOnlyWhenAllReady ==
    [][CircuitReadyStep =>
           LET record == uninitialized_circuits[CID]
               recorded == IF IsSome(record) THEN Unwrap(record).ready_members ELSE {}
               at_commit == last'.op = "commit"
               arriving == IF at_commit THEN {node_id} ELSE {last'.member}
               committed == IF at_commit THEN Unwrap(pending_changes).circuit_proposal
                            ELSE Unwrap(Unwrap(record).circuit)
           IN /\ last'.op \in {"commit", "add_ready_member"}
              /\ IF at_commit
                 THEN /\ IsSome(pending_changes)
                      /\ check_approved(Unwrap(pending_changes).circuit_proposal) = "Accepted"
                      /\ IsSome(circuits'[CID])
                 ELSE IsSome(record) /\ IsSome(Unwrap(record).circuit)
              /\ RangeOf(member_ids(committed.circuit_proposal)) \subseteq recorded \cup arriving
              /\ uninitialized_circuits'[CID] = NoneV]_vars

\* MEMBER_READY of the other member has arrived before the commit, and the
\* commit makes the circuit ready
C9_Witness ==
    /\ last.op = "commit"
    /\ events # <<>>
    /\ events[Len(events)].event_type = "CircuitReady"
    /\ services # {}
    /\ IsSome(circuits[CID])

\* C10: when this node has proposed a circuit of two members and the other
\* member has accepted it, the events of the circuit are ProposalSubmitted,
\* ProposalVote, ProposalAccepted and CircuitReady, in this order.
C10_EventOrder ==
    (/\ events # <<>>
     /\ \A i \in DOMAIN events :
            events[i].circuit_id = CID /\ events[i].requester_node_id = node_id
     /\ events[1].event_type = "ProposalSubmitted"
     /\ events[Len(events)].event_type = "CircuitReady")
        => [i \in DOMAIN events |-> events[i].event_type]
               = <<"ProposalSubmitted", "ProposalVote", "ProposalAccepted", "CircuitReady">>

(***************************************************************************)
(* The end of a disbanded circuit.                                         *)
(***************************************************************************)
CircuitDisbandedStep ==
    \E i \in (Len(events) + 1)..Len(events') :
        events'[i].event_type = "CircuitDisbanded"

\* C11: CircuitDisbanded is emitted only by a step that finds the accepted
\* proposal to disband committed at this node and DISBANDED_CIRCUIT recorded
\* for every member, and that does the whole cleanup: the step succeeds, the
\* local services of the circuit are stopped, its routing entry is removed,
\* one peer ref of every member is released and the record is dropped.  A
\* step whose cleanup fails emits no CircuitDisbanded.
C11_DisbandedOnlyWhenCleaned ==
    [][CircuitDisbandedStep =>
           LET record == pending_consensus_disbanded_circuits[CID]
               recorded == IF IsSome(record) THEN Unwrap(record).ready_members ELSE {}
               at_commit == last'.op = "commit"
               arriving == IF at_commit THEN {node_id} ELSE {last'.member}
               committed == IF at_commit THEN Unwrap(pending_changes).circuit_proposal
                            ELSE Unwrap(Unwrap(record).circuit)
               ids == member_ids(committed.circuit_proposal)
           IN /\ last'.op \in {"commit", "add_member_ready_to_disband"}
              /\ RangeOf(ids) \subseteq recorded \cup arriving
              /\ IsOk(last'.res)
              /\ services' \cap local_services(committed.circuit_proposal) = {}
              /\ CID \notin routing'
              /\ peer_refs' = remove_peer_refs(Self, ids).peer_refs
              /\ pending_consensus_disbanded_circuits'[CID] = NoneV]_vars

(***************************************************************************)
(* The end of a rejected proposal.                                         *)
(***************************************************************************)
RejectedCreateStep ==
    /\ last'.op = "commit"
    /\ IsSome(pending_changes)
    /\ Unwrap(pending_changes).circuit_proposal.proposal_type = "CREATE"
    /\ check_approved(Unwrap(pending_changes).circuit_proposal) = "Rejected"

\* one peer ref less for every member of the circuit but this node
ReleasedOnce(circuit) ==
    [n \in Nodes |->
        IF n # node_id /\ n \in RangeOf(member_ids(circuit))
        THEN peer_refs[n] - 1 ELSE peer_refs[n]]

\* C12: a commit that tallies a proposal to create a circuit as Rejected
\* removes the proposal from the store, releases exactly one peer ref of
\* every other member of the proposed circuit and emits ProposalRejected as
\* its one and last event; a vote for a circuit id that has no stored
\* proposal is refused by propose_change and sets no pending change.
C12_RejectedIsTerminal ==
    [][/\ RejectedCreateStep =>
              LET circuit_proposal == Unwrap(pending_changes).circuit_proposal
              IN /\ IsOk(last'.res)
                 /\ proposals'[circuit_proposal.circuit_id] = NoneV
                 /\ peer_refs' = ReleasedOnce(circuit_proposal.circuit_proposal)
                 /\ events' = Append(events,
                                     AdminServiceEvent("ProposalRejected", circuit_proposal))
       /\ (/\ last'.op = "propose_change"
           /\ last'.action = "CIRCUIT_PROPOSAL_VOTE"
           /\ proposals[CID] = NoneV)
              => (~IsOk(last'.res) /\ pending_changes' = NoneV)]_vars

(***************************************************************************)
(* The slot of the pending change.                                         *)
(***************************************************************************)
\* C13: commit consumes the pending change: after a commit, successful or
\* not, the slot is empty; only a successful propose_change fills it; and a
\* commit that finds the slot empty returns NoPendingChanges and changes
\* nothing (store, routing table, peer refs, readiness maps, events), so an
\* accepted proposal is never applied twice.
C13_CommitConsumesSlot ==
    [][/\ last'.op = "commit" => pending_changes' = NoneV
       /\ (last'.op = "commit" /\ pending_changes = NoneV)
              => (last'.res.kind = "NoPendingChanges" /\ fields' = fields)
       /\ (pending_changes = NoneV /\ pending_changes' # NoneV)
              => (last'.op = "propose_change" /\ IsOk(last'.res))]_vars

\* the accepted proposal has been committed and the circuit stored; a second
\* commit finds nothing pending
C13_Witness ==
    /\ last.op = "commit"
    /\ last.res.kind = "NoPendingChanges"
    /\ IsSome(circuits[CID])
    /\ CID \in routing
    /\ events # <<>>
    /\ events[Len(events)].event_type = "ProposalAccepted"

\* every field but the slot of the pending change
OtherFields ==
    <<proposals, circuits, routing, peer_refs, service_protocols, unpeered_payloads,
      pending_protocol_payloads, pending_circuit_payloads, pending_consensus_proposals,
      uninitialized_circuits, pending_consensus_disbanded_circuits, events, services>>

\* C14: rollback empties the slot of the pending change and leaves everything
\* else as it was (store, routing table, peer refs, queues, readiness maps,
\* events); it returns Ok, also when nothing is pending; the commit after a
\* rollback finds the slot empty and returns NoPendingChanges.
C14_RollbackDiscardsSlot ==
    [][/\ last'.op = "rollback"
              => /\ IsOk(last'.res)
                 /\ pending_changes' = NoneV
                 /\ OtherFields' = OtherFields
       /\ (last'.op = "commit" /\ pending_changes = NoneV)
              => last'.res.kind = "NoPendingChanges"]_vars

\* the proposal to create the circuit, with a peer ref held for node_b, has
\* been discarded
C14_Witness ==
    /\ last.op = "rollback"
    /\ last.action = "CIRCUIT_CREATE_REQUEST"
    /\ pending_changes = NoneV
    /\ peer_refs["node_b"] = 1

(***************************************************************************)
(* Failures of the store.                                                  *)
(***************************************************************************)
\* C15: when an operation of the admin store fails during commit, the error
\* is returned and the coordinator is as it was before the call: the slot of
\* the pending change, the peer refs, the routing table, the readiness maps
\* and the events are unchanged.
C15_StoreFailureChangesNothing ==
    [][(last'.op = "commit" /\ last'.res.kind \in {"StoreError", "SplinterStateError"})
           => /\ pending_changes' = pending_changes
              /\ peer_refs' = peer_refs
              /\ routing' = routing
              /\ uninitialized_circuits' = uninitialized_circuits
              /\ pending_consensus_disbanded_circuits' = pending_consensus_disbanded_circuits
              /\ events' = events]_vars


(***************************************************************************)
(* The way of a payload through the queues.                                *)
(***************************************************************************)
\* the payloads to create a circuit that wait in a queue of pending payloads
WaitingCreates(queue) ==
    {queue[i].payload_type.payload : i \in
        {j \in DOMAIN queue :
            /\ queue[j].payload_type.kind = "Circuit"
            /\ queue[j].payload_type.payload.action = "CIRCUIT_CREATE_REQUEST"}}

\* the payloads to create a circuit in the ready queue
ReadyCreates(queue) ==
    {queue[i] : i \in {j \in DOMAIN queue : queue[j].action = "CIRCUIT_CREATE_REQUEST"}}

\* C16: a payload to create a circuit that is admitted while a member other
\* than this node has no agreed protocol is put in the unpeered queue and in
\* no other; it leaves the unpeered queue only at an on_peer_connected, when
\* no peer it waits for is left, and for the protocol queue; it enters the
\* ready queue only at its admission, when no member lacks a protocol, or
\* from the protocol queue at an on_protocol_agreement with a version other
\* than 0, when no member it waits for is left.
C16_CreateWaitsForPeersAndProtocols ==
    [][/\ (/\ last'.op = "submit"
           /\ last'.action = "CIRCUIT_CREATE_REQUEST"
           /\ IsOk(last'.res)
           /\ missing_protocol_nodes(Self, member_ids(offered)) # <<>>)
              => /\ CreatePayload(node_id, offered) \in WaitingCreates(unpeered_payloads')
                 /\ pending_protocol_payloads' = pending_protocol_payloads
                 /\ pending_circuit_payloads' = pending_circuit_payloads
       /\ \A i \in DOMAIN unpeered_payloads :
              LET waiting == unpeered_payloads[i]
                  payload == waiting.payload_type.payload
              IN (/\ payload \in WaitingCreates(unpeered_payloads)
                  /\ payload \notin WaitingCreates(unpeered_payloads'))
                     => /\ last'.op = "on_peer_connected"
                        /\ RangeOf(waiting.unpeered_ids) \subseteq {last'.member}
                        /\ payload \in WaitingCreates(pending_protocol_payloads')
                        /\ pending_circuit_payloads' = pending_circuit_payloads
       /\ \A payload \in ReadyCreates(pending_circuit_payloads')
                             \ ReadyCreates(pending_circuit_payloads) :
              \/ /\ last'.op = "submit"
                 /\ missing_protocol_nodes(Self, member_ids(Unwrap(payload.create))) = <<>>
              \/ /\ last'.op = "on_protocol_agreement"
                 /\ last'.protocol # 0
                 /\ \E i \in DOMAIN pending_protocol_payloads :
                        /\ pending_protocol_payloads[i].payload_type.payload = payload
                        /\ RangeOf(pending_protocol_payloads[i].missing_protocol_ids)
                               \subseteq {admin_service_id(last'.member)}]_vars

\* the payload was admitted before node_b had agreed on a protocol and has
\* reached the ready queue at the agreement
C16_Witness ==
    /\ last.op = "on_protocol_agreement"
    /\ last.protocol # 0
    /\ CreatePayload(node_id, offered) \in ReadyCreates(pending_circuit_payloads)
    /\ unpeered_payloads = <<>>
    /\ pending_protocol_payloads = <<>>
    /\ peer_refs["node_b"] = 1


\* the waiting payloads of a queue that name the peer among their members
Referencing(queue, peer_id) ==
    {queue[i] : i \in {j \in DOMAIN queue : peer_id \in RangeOf(queue[j].members)}}

\* C17: when on_protocol_agreement reports protocol 0 for a peer, no payload
\* that names the peer among its members is left in the unpeered queue or in
\* the protocol queue, the peer refs added for the members of a dropped
\* payload to create a circuit are released, no agreement is recorded for
\* the peer, and neither an event nor a ready payload nor a consensus
\* proposal comes of the dropped payloads.
C17_NoSharedProtocolDropsPayloads ==
    [][(last'.op = "on_protocol_agreement" /\ last'.protocol = 0)
           => LET peer_id == last'.member
                  dropped == Referencing(unpeered_payloads, peer_id)
                                 \cup Referencing(pending_protocol_payloads, peer_id)
              IN /\ Referencing(unpeered_payloads', peer_id) = {}
                 /\ Referencing(pending_protocol_payloads', peer_id) = {}
                 /\ \A waiting \in dropped :
                        waiting.payload_type.payload.action = "CIRCUIT_CREATE_REQUEST"
                            => \A n \in RangeOf(waiting.members) \ {node_id} :
                                   peer_refs'[n] = peer_refs[n] - 1
                 /\ service_protocols' = service_protocols
                 /\ events' = events
                 /\ pending_circuit_payloads' = pending_circuit_payloads
                 /\ pending_consensus_proposals' = pending_consensus_proposals]_vars


\* the payloads that wait in a queue of pending payloads
Payloads(queue) == {queue[i].payload_type.payload : i \in DOMAIN queue}

\* C18: a disconnect loses no waiting payload and does not leave it stuck.
\* At on_peer_disconnected every payload of the unpeered and of the protocol
\* queue stays in one of the two.  A payload that is back in the protocol
\* queue (its peer has connected again) and waits on no member but the
\* peer whose admin service now agrees on a version other than 0 leaves the
\* protocol queue at that on_protocol_agreement, for the ready queue when
\* it was submitted here.
C18_DisconnectLosesNothing ==
    [][/\ last'.op = "on_peer_disconnected"
              => Payloads(unpeered_payloads) \cup Payloads(pending_protocol_payloads)
                     = Payloads(unpeered_payloads') \cup Payloads(pending_protocol_payloads')
       /\ (last'.op = "on_protocol_agreement" /\ last'.protocol # 0)
              => \A i \in DOMAIN pending_protocol_payloads :
                     LET waiting == pending_protocol_payloads[i]
                         payload == waiting.payload_type.payload
                     IN RangeOf(waiting.members) \ {node_id} \subseteq {last'.member}
                            => /\ payload \notin Payloads(pending_protocol_payloads')
                               /\ waiting.payload_type.kind = "Circuit"
                                      => payload \in RangeOf(pending_circuit_payloads')]_vars


(***************************************************************************)
(* The order of the payloads of one client.                                *)
(***************************************************************************)
\* the two requests of the client of SpecOrder, the earlier and the later
Earlier == CreatePayload(node_id, GoodCircuit)
Later == CreatePayload(node_id, SoloCircuit)

\* C19: the payloads submitted here leave the ready queue in the order of
\* their submission: the later request is not taken off the ready queue
\* (pop_pending_circuit_payload, followed by propose_change) while the
\* earlier one is still in the unpeered queue, the protocol queue or the
\* ready queue.
C19_SubmissionOrder ==
    [][(/\ last'.op = "propose_change"
        /\ pending_circuit_payloads # <<>>
        /\ Head(pending_circuit_payloads) = Later
        /\ pending_circuit_payloads' = Tail(pending_circuit_payloads))
           => Earlier \notin Payloads(unpeered_payloads)
                                 \cup Payloads(pending_protocol_payloads)
                                 \cup RangeOf(pending_circuit_payloads)]_vars


(***************************************************************************)
(* The local commands.                                                     *)
(***************************************************************************)
\* C20: purge and abandon never enter consensus.  A submit of a request to
\* purge or to abandon a circuit puts nothing in the unpeered, the protocol
\* or the ready queue, adds no pending consensus proposal and leaves the
\* pending change as it is; propose_change with a payload to purge or to
\* abandon returns ValidationFailed and sets no pending change.
C20_LocalCommandsSkipConsensus ==
    [][/\ (/\ last'.op = "submit"
           /\ last'.action \in {"CIRCUIT_PURGE_REQUEST", "CIRCUIT_ABANDON"})
              => /\ unpeered_payloads' = unpeered_payloads
                 /\ pending_protocol_payloads' = pending_protocol_payloads
                 /\ pending_circuit_payloads' = pending_circuit_payloads
                 /\ pending_consensus_proposals' = pending_consensus_proposals
                 /\ pending_changes' = pending_changes
       /\ (/\ last'.op = "propose_change"
           /\ last'.action \in {"CIRCUIT_PURGE_REQUEST", "CIRCUIT_ABANDON"})
              => /\ last'.res.kind = "ValidationFailed"
                 /\ pending_changes' = NoneV]_vars

\* the disbanded circuit has been purged by a submit
C20_Witness ==
    /\ last.op = "submit"
    /\ last.action = "CIRCUIT_PURGE_REQUEST"
    /\ IsOk(last.res)
    /\ circuits[CID] = NoneV
    /\ \E i \in DOMAIN events : events[i].event_type = "CircuitDisbanded"


(***************************************************************************)
(* Purge.                                                                  *)
(***************************************************************************)
\* this node's client submits a well-formed, well-signed, permitted request
\* of the action for the stored circuit
LocalRequestStep(action) ==
    /\ last'.op = "submit"
    /\ last'.action = action
    /\ last'.signature = "good"
    /\ last'.perm = "true"
    /\ last'.member = node_id
    /\ IsSome(circuits[CID])
    /\ Unwrap(circuits[CID]).circuit_version = CIRCUIT_PROTOCOL_VERSION

\* the unpeered, the protocol and the ready queue
PayloadQueues == <<unpeered_payloads, pending_protocol_payloads, pending_circuit_payloads>>

C22_PurgeRefused ==
    [][(/\ last'.op = "submit"
        /\ last'.action = "CIRCUIT_PURGE_REQUEST"
        /\ last'.signature = "good"
        /\ \/ circuits[CID] = NoneV
           \/ Unwrap(circuits[CID]).circuit_status = "Active"
           \/ last'.member # node_id)
           => /\ last'.res.kind = "ValidationFailed"
              /\ events' = events
              /\ circuits' = circuits
              /\ proposals' = proposals]_vars

\* the circuit was disbanded and purged; the second purge has been refused
C22_Witness ==
    /\ last.op = "submit"
    /\ last.action = "CIRCUIT_PURGE_REQUEST"
    /\ last.member = node_id
    /\ last.res.kind = "ValidationFailed"
    /\ circuits[CID] = NoneV
    /\ events # <<>>
    /\ events[Len(events)].event_type = "CircuitDisbanded"


(***************************************************************************)
(* Abandon.                                                                *)
(***************************************************************************)
\* one message of the type to every member of the circuit but this node
ToOtherMembers(circuit, type) ==
    LET others == SelectSeq(member_ids(circuit), LAMBDA n : n # node_id)
    IN [i \in DOMAIN others |-> AdminMessage(others[i], type, circuit.circuit_id)]

\* C23: a valid abandon submitted at this node for an Active circuit, with an
\* orchestrator that stops the services, needs no agreement: the one call
\* sends AbandonedCircuit to every other member, stores the circuit as
\* Abandoned, stops the services of this node, removes the routing entry and
\* releases one peer ref of every other member.  An abandon of a circuit
\* that is not stored or not Active, or in the name of another node, fails
\* with ValidationFailed and changes nothing.
C23_AbandonIsLocal ==
    [][/\ (/\ LocalRequestStep("CIRCUIT_ABANDON")
           /\ last'.member = node_id
           /\ last'.orch = "ok"
           /\ Unwrap(circuits[CID]).circuit_status = "Active")
              => LET stored_circuit == Unwrap(circuits[CID])
                 IN /\ IsOk(last'.res)
                    /\ submit(Self, AbandonPayload(node_id), "true", "none", "ok").sent
                           = ToOtherMembers(stored_circuit, "ABANDONED_CIRCUIT")
                    /\ circuits'[CID]
                           = Some([stored_circuit EXCEPT !.circuit_status = "Abandoned"])
                    /\ services' = services
                           \ local_services(StoreCircuit_into_proto(stored_circuit, "ACTIVE"))
                    /\ routing' = routing \ {CID}
                    /\ peer_refs' = ReleasedOnce(stored_circuit)
       /\ (/\ last'.op = "submit"
           /\ last'.action = "CIRCUIT_ABANDON"
           /\ last'.signature = "good"
           /\ \/ circuits[CID] = NoneV
              \/ Unwrap(circuits[CID]).circuit_status # "Active"
              \/ last'.member # node_id)
              => /\ last'.res.kind = "ValidationFailed"
                 /\ fields' = fields]_vars


(***************************************************************************)
(* Disband.                                                                *)
(***************************************************************************)
\* the circuit is stored, Active and of the current version, no proposal for
\* its id is stored, and whoever has agreed on a protocol has agreed on the
\* current one
MayDisband ==
    /\ IsSome(circuits[CID])
    /\ Unwrap(circuits[CID]).circuit_status = "Active"
    /\ Unwrap(circuits[CID]).circuit_version = CIRCUIT_PROTOCOL_VERSION
    /\ proposals[CID] = NoneV
    /\ \A n \in RangeOf(member_ids(Unwrap(circuits[CID]))) \ {node_id} :
           service_protocols[admin_service_id(n)] \in {0, ADMIN_SERVICE_PROTOCOL_VERSION}

\* a well-formed, well-signed, permitted request to disband is admitted or
\* validated
DisbandStep ==
    /\ last'.op \in {"submit", "propose_change"}
    /\ last'.action = "CIRCUIT_DISBAND_REQUEST"
    /\ last'.signature = "good"
    /\ last'.perm = "true"

\* C24: a request to disband is admitted, by submit and by propose_change,
\* only when the circuit is stored with status Active and the current
\* circuit version, no proposal for its id is pending and the protocol
\* agreed with the members is the current one; in every other case the call
\* fails with ValidationFailed and creates no proposal.
C24_DisbandAdmission ==
    [][DisbandStep =>
           /\ IsOk(last'.res) => MayDisband
           /\ ~MayDisband => /\ last'.res.kind = "ValidationFailed"
                             /\ proposals' = proposals
                             /\ pending_changes' = pending_changes]_vars


(***************************************************************************)
(* One circuit id, one circuit.                                            *)
(***************************************************************************)
\* C25: a well-signed payload to create a circuit whose id is the id of a
\* stored proposal or of a stored circuit, whatever its status, is refused
\* with ValidationFailed by submit and by propose_change and leaves the
\* store as it was; so a stored proposal to create a circuit never shares
\* its id with a stored circuit.
C25_OneCircuitPerId ==
    [][/\ (/\ last'.op \in {"submit", "propose_change"}
           /\ last'.action = "CIRCUIT_CREATE_REQUEST"
           /\ last'.signature = "good"
           /\ IsSome(proposals[offered.circuit_id]) \/ IsSome(circuits[offered.circuit_id]))
              => /\ last'.res.kind = "ValidationFailed"
                 /\ proposals' = proposals
                 /\ circuits' = circuits
                 /\ pending_changes' = pending_changes
       /\ \A c \in CircuitIds :
              (IsSome(proposals'[c]) /\ Unwrap(proposals'[c]).proposal_type = "Create")
                  => circuits'[c] = NoneV]_vars

\* the circuit was disbanded; the request to create it anew has been refused
C25_Witness ==
    /\ last.op = "submit"
    /\ last.action = "CIRCUIT_CREATE_REQUEST"
    /\ last.res.kind = "ValidationFailed"
    /\ IsSome(circuits[CID])
    /\ Unwrap(circuits[CID]).circuit_status = "Disbanded"


(***************************************************************************)
(* The admission of votes and of requests to disband.                      *)
(***************************************************************************)
\* C26: the admission of a vote or of a request to disband adds no peer ref
\* and puts nothing in the unpeered queue.  When every other member has an
\* agreed protocol the payload goes to the back of the ready queue;
\* otherwise it goes to the back of the protocol queue, waiting for no peer
\* and for the admin services of exactly the members that lack a protocol,
\* and a protocol request is sent to each of them.
C26_VotesAndDisbandsSkipPeering ==
    [][(/\ last'.op = "submit"
        /\ last'.action \in {"CIRCUIT_PROPOSAL_VOTE", "CIRCUIT_DISBAND_REQUEST"}
        /\ IsOk(last'.res))
           => LET ids == member_ids(offered)
                  missing == missing_protocol_nodes(Self, ids)
                  ready == pending_circuit_payloads'
                  protocol == pending_protocol_payloads'
              IN /\ peer_refs' = peer_refs
                 /\ unpeered_payloads' = unpeered_payloads
                 /\ missing = <<>>
                        => /\ Len(ready) = Len(pending_circuit_payloads) + 1
                           /\ SubSeq(ready, 1, Len(ready) - 1) = pending_circuit_payloads
                           /\ ready[Len(ready)].action = last'.action
                           /\ protocol = pending_protocol_payloads
                 /\ missing # <<>>
                        => /\ ready = pending_circuit_payloads
                           /\ Len(protocol) = Len(pending_protocol_payloads) + 1
                           /\ SubSeq(protocol, 1, Len(protocol) - 1) = pending_protocol_payloads
                           /\ LET waiting == protocol[Len(protocol)]
                              IN /\ waiting.payload_type.kind = "Circuit"
                                 /\ waiting.payload_type.payload.action = last'.action
                                 /\ waiting.unpeered_ids = <<>>
                                 /\ waiting.missing_protocol_ids = to_service_ids(missing)
                                 /\ submit(Self, waiting.payload_type.payload,
                                           "true", "none", "ok").sent
                                        = [i \in DOMAIN missing |-> ProtocolRequest(missing[i])]]_vars

\* node_b has disconnected after the circuit was proposed; the vote of this
\* node waits in the protocol queue for the admin service of node_b
C26_Witness ==
    /\ last.op = "submit"
    /\ last.action = "CIRCUIT_PROPOSAL_VOTE"
    /\ IsOk(last.res)
    /\ unpeered_payloads = <<>>
    /\ pending_circuit_payloads = <<>>
    /\ Len(pending_protocol_payloads) = 1
    /\ pending_protocol_payloads[1].missing_protocol_ids = <<"admin::node_b">>


(***************************************************************************)
(* The admission of requests to create a circuit.                          *)
(***************************************************************************)
\* the number of times node n is listed in ids
Listed(ids, n) == Cardinality({i \in DOMAIN ids : ids[i] = n})

\* C27: the admission of a request to create a circuit adds one peer ref for
\* each member other than the local node and queues the payload.  When the
\* peer connector fails to add the ref of a member, submit returns an error,
\* the refs it had added for the payload are released again and no queue
\* gains the payload.
C27_CreateTakesOneRefPerMember ==
    [][(last'.op = "submit" /\ last'.action = "CIRCUIT_CREATE_REQUEST")
           => LET ids == member_ids(offered)
                  others == RangeOf(ids) \ {node_id}
              IN /\ IsOk(last'.res)
                        => /\ last'.bad_peer \notin others
                           /\ \A n \in Nodes :
                                  peer_refs'[n] = peer_refs[n]
                                      + (IF n = node_id THEN 0 ELSE Listed(ids, n))
                           /\ Len(unpeered_payloads') + Len(pending_circuit_payloads')
                                  = Len(unpeered_payloads) + Len(pending_circuit_payloads) + 1
                 /\ last'.bad_peer \in others
                        => /\ ~IsOk(last'.res)
                           /\ peer_refs' = peer_refs
                           /\ PayloadQueues' = PayloadQueues]_vars

\* the connector has failed for node_c after the ref of node_b was added:
\* the ref of node_b is released, no payload waits
C27_Witness ==
    /\ last.op = "submit"
    /\ last.action = "CIRCUIT_CREATE_REQUEST"
    /\ last.bad_peer = "node_c"
    /\ last.res.kind = "PeerRefAddError"
    /\ member_ids(offered) = <<"node_a", "node_b", "node_c">>
    /\ peer_refs["node_b"] = 0
    /\ unpeered_payloads = <<>>


(***************************************************************************)
(* The protocol a proposal to create a circuit is validated under.         *)
(***************************************************************************)
\* the lowest protocol agreed with a member of circuit, the current one when
\* none is agreed
AgreedProtocol(circuit) ==
    LET agreed == {service_protocols[admin_service_id(n)] : n \in RangeOf(member_ids(circuit))}
                      \ {0}
    IN IF ADMIN_SERVICE_PROTOCOL_MIN \in agreed
       THEN ADMIN_SERVICE_PROTOCOL_MIN ELSE ADMIN_SERVICE_PROTOCOL_VERSION

\* propose_change is called with circuit_payload, well-formed and well-signed,
\* taken from the head of the ready queue or from the proposals of consensus
ProposeStep(circuit_payload) ==
    /\ last'.op = "propose_change"
    /\ last'.action = circuit_payload.action
    /\ last'.member = circuit_payload.requester_node_id
    /\ last'.signature = circuit_payload.signature
    /\ \/ /\ pending_circuit_payloads # <<>>
          /\ circuit_payload = Head(pending_circuit_payloads)
          /\ pending_circuit_payloads' = Tail(pending_circuit_payloads)
       \/ /\ circuit_payload \in pending_consensus_proposals
          /\ pending_consensus_proposals' = pending_consensus_proposals \ {circuit_payload}
    /\ IsOk(validate_circuit_management_payload(circuit_payload))
    /\ IsOk(verify_signature(circuit_payload))

\* C28: propose_change validates a proposal to create a circuit under the
\* lowest protocol agreed with the circuit's members.  Under protocol 1 a
\* circuit with a display name, a status or a version other than 0 is
\* rejected; under the current protocol a circuit of a version above
\* CIRCUIT_PROTOCOL_VERSION is rejected; a rejected proposal is not kept and
\* one peer ref of each of its members is released.
C28_CreateValidatedUnderAgreedProtocol ==
    [][\A circuit_payload \in {p \in RemotePayloads(offered) \cup LocalRequests(offered) :
                                   p.action = "CIRCUIT_CREATE_REQUEST"} :
           ProposeStep(circuit_payload)
               => LET circuit == get_circuit_create_request(circuit_payload)
                      ids == member_ids(circuit)
                      protocol == AgreedProtocol(circuit)
                      unfit ==
                          \/ /\ protocol = ADMIN_SERVICE_PROTOCOL_MIN
                             /\ \/ circuit.display_name # ""
                                \/ circuit.circuit_status # "UNSET_CIRCUIT_STATUS"
                                \/ circuit.circuit_version # 0
                          \/ /\ protocol = ADMIN_SERVICE_PROTOCOL_VERSION
                             /\ circuit.circuit_version > CIRCUIT_PROTOCOL_VERSION
                  IN /\ IsOk(last'.res) => ~unfit
                     /\ unfit => /\ last'.res.kind = "ValidationFailed"
                                 /\ pending_changes' = NoneV
                                 /\ \A n \in (Nodes \ {node_id}) :
                                        peer_refs'[n] = peer_refs[n] - Listed(ids, n)]_vars



(***************************************************************************)
(* Events and their subscribers.                                           *)
(***************************************************************************)
\* the ids of the subscribers registered for circuit management type t
Registered(t) == {event_subscribers[t][i].id : i \in DOMAIN event_subscribers[t]}

\* the events a step has appended to the event log, and those of type t
Logged == SubSeq(events', Len(events) + 1, Len(events'))
LoggedOf(t) == SelectSeq(Logged, LAMBDA e : e.circuit_management_type = t)

\* C29: an event handed to a subscriber has been appended to the event log,
\* and the subscriber was registered for the circuit management type of the
\* event; when the event store fails to take an event, no subscriber is
\* handed it.
C29_EventsAreLoggedThenDelivered ==
    [][\A id \in DOMAIN handled :
           LET before == Len(handled[id])
               given == SubSeq(handled'[id], before + 1, Len(handled'[id]))
           IN /\ Len(handled'[id]) >= before
              /\ SubSeq(handled'[id], 1, before) = handled[id]
              /\ \A i \in DOMAIN given :
                     /\ \E j \in DOMAIN Logged : Logged[j] = given[i]
                     /\ id \in Registered(given[i].circuit_management_type)
              /\ event_store # "ok" => given = <<>>]_vars

\* the events of the circuit were handed to s1, registered for the type of
\* the circuit, and not to s2, registered for another type
C29_Witness ==
    /\ Len(events) >= 2
    /\ handled["s1"] = events
    /\ handled["s2"] = <<>>
    /\ "s1" \in Registered(offered.circuit_management_type)
    /\ "s2" \in Registered("other")

\* C30: a subscriber that answers Unsubscribe to an event is removed and is
\* handed no later event; a subscriber that answers Ok or UnableToHandleEvent
\* stays registered and is handed every later event of its circuit
\* management type; this is so whatever the other subscribers answer.
C30_UnsubscribeOnlyOnRequest ==
    [][/\ \A id \in DOMAIN handled :
              (\A t \in DOMAIN event_subscribers : id \notin Registered(t))
                  => handled'[id] = handled[id]
       /\ \A t \in DOMAIN event_subscribers : \A i \in DOMAIN event_subscribers[t] :
              LET sub == event_subscribers[t][i]
                  asked == LoggedOf(t)
                  leaves == {k \in DOMAIN asked : /\ k \in DOMAIN sub.answers
                                                  /\ sub.answers[k] = "Unsubscribe"}
              IN IF leaves = {}
                 THEN /\ handled'[sub.id] = handled[sub.id] \o asked
                      /\ sub.id \in Registered(t)'
                 ELSE LET k == CHOOSE k \in leaves : \A l \in leaves : k <= l
                      IN /\ handled'[sub.id] = handled[sub.id] \o SubSeq(asked, 1, k)
                         /\ \A u \in DOMAIN event_subscribers : sub.id \notin Registered(u)']_vars

\* s1 answered Unsubscribe to the first event and was handed no other; s2
\* answered UnableToHandleEvent, is still registered and was handed them all
C30_Witness ==
    /\ Len(events) >= 2
    /\ handled["s1"] = <<events[1]>>
    /\ \A t \in DOMAIN event_subscribers : "s1" \notin Registered(t)
    /\ handled["s2"] = events
    /\ event_subscribers[offered.circuit_management_type] = <<[id |-> "s2", answers |-> <<>>]>>
    /\ \E i \in DOMAIN events : events[i].event_type = "CircuitReady"

\* C31: every entry of the protocol queue is fully peered (its unpeered_ids
\* are empty) and still lacks a protocol agreement (its missing_protocol_ids
\* are not empty), the entries made by handle_proposed_circuit and those moved
\* by on_peer_connected included.
C31_ProtocolQueueFullyPeered ==
    \A i \in DOMAIN pending_protocol_payloads :
        /\ pending_protocol_payloads[i].unpeered_ids = <<>>
        /\ pending_protocol_payloads[i].missing_protocol_ids # <<>>

\* C32: every entry of the unpeered queue names in unpeered_ids a member it
\* waits for; an entry that on_peer_disconnected(n) moves back from the
\* protocol queue has n in its unpeered_ids, and an entry leaves the unpeered
\* queue through on_peer_connected only.
C32_UnpeeredQueueWaitsForPeer ==
    [][/\ \A i \in DOMAIN unpeered_payloads' :
              unpeered_payloads'[i].unpeered_ids # <<>>
       /\ last'.op = "on_peer_disconnected" =>
              \A i \in DOMAIN unpeered_payloads' :
                  i > Len(unpeered_payloads) =>
                      last'.member \in RangeOf(unpeered_payloads'[i].unpeered_ids)
       /\ Len(unpeered_payloads') < Len(unpeered_payloads) =>
              last'.op = "on_peer_connected"]_vars

(***************************************************************************)
(* The end of a rejected proposal to disband.                              *)
(***************************************************************************)
RejectedDisbandStep ==
    /\ last'.op = "commit"
    /\ IsSome(pending_changes)
    /\ Unwrap(pending_changes).circuit_proposal.proposal_type = "DISBAND"
    /\ check_approved(Unwrap(pending_changes).circuit_proposal) = "Rejected"

\* C33: when commit tallies a proposal to disband as Rejected, the proposal is
\* removed and ProposalRejected is emitted, the circuit stays in the store as
\* it was, Active and with its routing entry, and the peer refs of its
\* members are what they were: none was taken when the proposal was admitted.
C33_RejectedDisbandKeepsCircuit ==
    [][RejectedDisbandStep =>
           LET ids == member_ids(Unwrap(pending_changes).circuit_proposal.circuit_proposal)
           IN /\ proposals'[CID] = NoneV
              /\ Len(Logged) = 1
              /\ Logged[1].event_type = "ProposalRejected"
              /\ circuits' = circuits
              /\ routing' = routing
              /\ \A n \in RangeOf(ids) : peer_refs'[n] = peer_refs[n]]_vars

(***************************************************************************)
(* The commit of an accepted proposal to create a circuit.                 *)
(***************************************************************************)
AcceptedCreateStep ==
    /\ last'.op = "commit"
    /\ IsOk(last'.res)
    /\ IsSome(pending_changes)
    /\ Unwrap(pending_changes).circuit_proposal.proposal_type = "CREATE"
    /\ check_approved(Unwrap(pending_changes).circuit_proposal) = "Accepted"

\* C34: when commit returns Ok for a proposal to create a circuit that
\* check_approved tallies as Accepted, the circuit is in the store with
\* status Active and has a routing entry, no proposal for it is stored,
\* ProposalAccepted has been emitted, MEMBER_READY has been sent once to
\* every other member, and either the uninitialised record of the circuit
\* has this node marked ready or CircuitReady has been emitted; whatever
\* circuit_status the request carries, and for a circuit of the requester
\* alone too.
C34_AcceptedCreateIsCommitted ==
    [][AcceptedCreateStep =>
           /\ IsSome(circuits'[CID])
           /\ Unwrap(circuits'[CID]).circuit_status = "Active"
           /\ CID \in routing'
           /\ proposals'[CID] = NoneV
           /\ Logged # <<>>
           /\ Logged[1].event_type = "ProposalAccepted"
           /\ commit(Self, last'.orch).sent
                  = ToOtherMembers(Unwrap(circuits'[CID]), "MEMBER_READY")
           /\ \/ /\ IsSome(uninitialized_circuits'[CID])
                 /\ node_id \in Unwrap(uninitialized_circuits'[CID]).ready_members
              \/ /\ Len(Logged) = 2
                 /\ Logged[2].event_type = "CircuitReady"]_vars

(***************************************************************************)
(* The initialisation of the services of a committed circuit.              *)
(***************************************************************************)
\* the committed proposal whose last missing member becomes ready in this
\* step: the record has the proposal and a MEMBER_READY arrives, or commit
\* stores the circuit of the accepted proposal
Initialized ==
    IF last'.op = "commit" THEN Unwrap(pending_changes).circuit_proposal
    ELSE Unwrap(Unwrap(uninitialized_circuits[CID]).circuit)

AllReadyStep ==
    \/ /\ last'.op = "add_ready_member"
       /\ members_ready(with_ready_member(uninitialized_circuits[CID], last'.member))
    \/ /\ last'.op = "commit"
       /\ IsSome(pending_changes)
       /\ Unwrap(pending_changes).circuit_proposal.proposal_type = "CREATE"
       /\ check_approved(Unwrap(pending_changes).circuit_proposal) = "Accepted"
       /\ Unwrap(pending_changes).circuit_proposal.circuit_proposal.circuit_status
              \in {"ACTIVE", "UNSET_CIRCUIT_STATUS"}
       /\ IsSome(proposals[CID])
       /\ members_ready(with_ready_member(
              Some(UninitializedCircuit(
                       Some(Unwrap(pending_changes).circuit_proposal),
                       IF IsSome(uninitialized_circuits[CID])
                       THEN Unwrap(uninitialized_circuits[CID]).ready_members ELSE {})),
              node_id))

\* C35: when every member is ready and the orchestrator fails to initialise
\* one of the services of this node, the other services of this node are
\* initialised all the same, the uninitialised record is dropped and the
\* stored circuit stays as it is (Active, when the step is the commit that
\* stores it).
C35_InitialisationProceeds ==
    [][(/\ AllReadyStep
        /\ last'.orch = "fail"
        /\ [circuit |-> CID, service_id |-> <<"a","0","0","0">>]
               \in local_services(Initialized.circuit_proposal))
           => /\ local_services(Initialized.circuit_proposal)
                     \ {[circuit |-> CID, service_id |-> <<"a","0","0","0">>]}
                  \subseteq services'
              /\ uninitialized_circuits'[CID] = NoneV
              /\ IF last'.op = "commit"
                 THEN /\ IsSome(circuits'[CID])
                      /\ Unwrap(circuits'[CID]).circuit_status = "Active"
                 ELSE circuits' = circuits]_vars

(***************************************************************************)
(* The life of a stored circuit.                                           *)
(***************************************************************************)
\* C36: the status of a stored circuit changes from Active to Disbanded or
\* from Active to Abandoned only; a circuit that is Disbanded or Abandoned
\* stays as it is until a purge removes it, and its peer refs are released
\* once: by the abandon, which finds it Active, or by the cleanup that emits
\* CircuitDisbanded, which leaves it Disbanded.
C36_StatusOnlyLeavesActive ==
    [][/\ (IsSome(circuits[CID]) /\ IsSome(circuits'[CID])
           /\ Unwrap(circuits'[CID]).circuit_status # Unwrap(circuits[CID]).circuit_status)
              => /\ Unwrap(circuits[CID]).circuit_status = "Active"
                 /\ Unwrap(circuits'[CID]).circuit_status \in {"Disbanded", "Abandoned"}
       /\ (IsSome(circuits[CID]) /\ Unwrap(circuits[CID]).circuit_status # "Active"
           /\ circuits'[CID] # circuits[CID])
              => /\ last'.op = "submit"
                 /\ last'.action = "CIRCUIT_PURGE_REQUEST"
                 /\ circuits'[CID] = NoneV
       /\ CircuitDisbandedStep
              => /\ IsSome(circuits'[CID])
                 /\ Unwrap(circuits'[CID]).circuit_status = "Disbanded"
       /\ (LocalRequestStep("CIRCUIT_ABANDON") /\ IsOk(last'.res))
              => /\ IsSome(circuits[CID])
                 /\ Unwrap(circuits[CID]).circuit_status = "Active"]_vars

(***************************************************************************)
(* The readiness of a committed circuit, under any MEMBER_READY.           *)
(***************************************************************************)
\* the uninitialised record of the circuit id has the committed proposal
Attached(record) == IsSome(record) /\ IsSome(Unwrap(record).circuit)

\* C37: the services of a committed proposal to create a circuit are
\* initialised, and CircuitReady is emitted, once at most: a step that does
\* either is the commit of the proposal or a MEMBER_READY that finds the
\* proposal in the uninitialised record, and it leaves no record with the
\* proposal; a MEMBER_READY that is repeated, or that finds no proposal in
\* the record of its circuit id (it is late, or the id is unknown), starts no
\* service and emits nothing.
C37_ReadyAtMostOnce ==
    [][/\ (\/ \E i \in DOMAIN Logged : Logged[i].event_type = "CircuitReady"
           \/ services' \ services # {})
              => /\ \/ /\ last'.op = "commit"
                       /\ Unwrap(pending_changes).circuit_proposal.proposal_type = "CREATE"
                    \/ /\ last'.op = "add_ready_member"
                       /\ last'.circuit_id = CID
                       /\ Attached(uninitialized_circuits[CID])
                 /\ ~Attached(uninitialized_circuits'[CID])
       /\ (/\ last'.op = "add_ready_member"
           /\ \/ ~Attached(uninitialized_circuits[last'.circuit_id])
              \/ last'.member \in Unwrap(uninitialized_circuits[last'.circuit_id]).ready_members)
              => /\ services' = services
                 /\ events' = events
                 /\ Attached(uninitialized_circuits'[last'.circuit_id])
                        = Attached(uninitialized_circuits[last'.circuit_id])]_vars

C37_Witness ==
    /\ last.op = "add_ready_member"
    /\ events # <<>>
    /\ events[Len(events)].event_type = "CircuitReady"
    /\ IsSome(uninitialized_circuits[CID])
    /\ IsSome(uninitialized_circuits[BadCID])

(***************************************************************************)
(* A proposal of another node that is refused.                             *)
(***************************************************************************)
\* C38: handle_proposed_circuit that returns an error leaves the peer
\* references, the proposals that wait for consensus and the three queues of
\* payloads as they were.
C38_RefusedProposalLeavesNoTrace ==
    [][(last'.op = "handle_proposed_circuit" /\ last'.res.kind # "Ok")
          => /\ peer_refs' = peer_refs
             /\ pending_consensus_proposals' = pending_consensus_proposals
             /\ unpeered_payloads' = unpeered_payloads
             /\ pending_protocol_payloads' = pending_protocol_payloads
             /\ pending_circuit_payloads' = pending_circuit_payloads]_vars

(***************************************************************************)
(* The dispatcher and the dispatch loop.  A dispatcher is given handlers   *)
(* and a network sender and dispatches messages directly, or it is moved   *)
(* into the thread of a dispatch loop; the thread takes the messages from  *)
(* a channel whose senders are the DispatchLoop, the message senders and   *)
(* the shutdown signalers made from it.                                    *)
(***************************************************************************)
MaxSent == 2

\* set_handler: the handler is kept for what its match_type returns
SetHandler ==
    /\ join_handle = "none"
    /\ \E handler \in Handlers :
            dispatcher' = [dispatcher EXCEPT !.handlers[handler.match_type] = Some(handler.name)]
    /\ UNCHANGED <<fields, offered, capacity, last, join_handle, rx, senders, taken>>

\* set_network_sender
SetNetworkSender ==
    /\ join_handle = "none"
    /\ dispatcher' = [dispatcher EXCEPT !.network_sender = Some("network_sender")]
    /\ UNCHANGED <<fields, offered, capacity, last, join_handle, rx, senders, taken>>

\* Dispatcher::dispatch called by the owner of the dispatcher
Dispatch ==
    /\ last = Idle
    /\ join_handle = "none"
    /\ \E message_type \in MessageTypes, form \in {"echo", "garbled", "refused"} :
            LET message_bytes == [seq |-> 0, form |-> form]
                done == dispatch(dispatcher, "TestPeer", message_type, message_bytes)
            IN last' = [op |-> "dispatch", message_type |-> message_type,
                        message_bytes |-> message_bytes, res |-> done.res,
                        invoked |-> done.invoked]
    /\ UNCHANGED <<fields, offered, capacity, loop_vars>>

\* DispatchLoopBuilder::build: the channel is made and the thread is started
\* with the dispatcher and the receiver; the loop keeps the sender
Build ==
    /\ join_handle = "none"
    /\ join_handle' = "running"
    /\ rx' = <<>>
    /\ senders' = {"DispatchLoop"}
    /\ UNCHANGED <<fields, offered, capacity, last, dispatcher, taken>>

\* new_dispatcher_sender and shutdown_signaler: a clone of the sender
CloneSender ==
    /\ "DispatchLoop" \in senders
    /\ \E holder \in {"DispatchMessageSender", "DispatchLoopShutdownSignaler"} :
            senders' = senders \cup {holder}
    /\ UNCHANGED <<fields, offered, capacity, last, dispatcher, join_handle, rx, taken>>

\* a holder of a sender goes out of scope
DropSender ==
    /\ \E holder \in senders : senders' = senders \ {holder}
    /\ UNCHANGED <<fields, offered, capacity, last, dispatcher, join_handle, rx, taken>>

\* DispatchMessageSender::send: the message is put in the channel unless the
\* receiver is gone; its bytes carry the number of messages sent so far
Send ==
    /\ "DispatchMessageSender" \in senders
    /\ Len(rx) + Len(taken) < MaxSent
    /\ \E message_type \in MessageTypes, form \in {"echo", "garbled", "refused"} :
            LET sent == Len(SelectSeq(rx, LAMBDA m : m.kind = "Message"))
                            + Len(SelectSeq(taken, LAMBDA r : r.message.kind = "Message"))
                message == [kind |-> "Message", message_type |-> message_type,
                            message_bytes |-> [seq |-> sent + 1, form |-> form],
                            source_id |-> "TestPeer"]
            IN rx' = IF join_handle = "finished" THEN rx ELSE Append(rx, message)
    /\ UNCHANGED <<fields, offered, capacity, last, dispatcher, join_handle, senders, taken>>

\* DispatchLoopShutdownSignaler::shutdown: the signal is put in the channel
\* unless the receiver is gone
Shutdown ==
    /\ "DispatchLoopShutdownSignaler" \in senders
    /\ Len(rx) + Len(taken) < MaxSent
    /\ rx' = IF join_handle = "finished" THEN rx ELSE Append(rx, [kind |-> "Shutdown"])
    /\ UNCHANGED <<fields, offered, capacity, last, dispatcher, join_handle, senders, taken>>

\* what the thread is when the inner loop is left by break: the inner loop is
\* the body of an outer loop that has no exit, so the inner loop starts again
outer_loop == "running"

\* the thread of the loop, one turn of the inner loop: recv waits for a
\* message while a sender lives; a message is dispatched and the loop goes
\* on, whatever the result; Shutdown and the error of recv that says every
\* sender is gone break the inner loop
DispatchLoopThread ==
    /\ join_handle = "running"
    /\ IF rx # <<>>
       THEN LET message == Head(rx)
            IN /\ rx' = Tail(rx)
               /\ IF message.kind = "Message"
                  THEN LET done == dispatch(dispatcher, message.source_id,
                                            message.message_type, message.message_bytes)
                       IN /\ taken' = Append(taken,
                                                [message |-> message, res |-> done.res,
                                                 invoked |-> done.invoked])
                          /\ join_handle' = "running"
                  ELSE /\ taken' = Append(taken, [message |-> message])
                       /\ join_handle' = outer_loop
       ELSE /\ senders = {}
            /\ join_handle' = outer_loop
            /\ UNCHANGED <<rx, taken>>
    /\ UNCHANGED <<fields, offered, capacity, last, dispatcher, senders>>

\* DispatchLoop::wait_for_shutdown returns when the thread has finished
wait_for_shutdown_returns == join_handle = "finished"

NextLoop ==
    \/ SetHandler
    \/ SetNetworkSender
    \/ Dispatch
    \/ Build
    \/ CloneSender
    \/ DropSender
    \/ Send
    \/ Shutdown
    \/ DispatchLoopThread
    \/ Returned

\* the thread gets its turn
SpecLoop == Init /\ [][NextLoop]_vars /\ WF_vars(DispatchLoopThread)

\* shutdown has been called: the signal is in the channel or was taken from it
ShutdownSignalled ==
    \/ \E i \in DOMAIN rx : rx[i].kind = "Shutdown"
    \/ \E i \in DOMAIN taken : taken[i].message.kind = "Shutdown"

\* C39: once shutdown is called on a running dispatch loop the thread of the
\* loop finishes in the end, so that wait_for_shutdown returns; nothing that
\* is put in the channel after the shutdown signal is dispatched; and the
\* thread finishes in the end when no holder of a sender is left.
C39_ShutdownEndsTheLoop ==
    /\ [](ShutdownSignalled => <>wait_for_shutdown_returns)
    /\ []((join_handle = "running" /\ senders = {}) => <>wait_for_shutdown_returns)
    /\ [](\A i, j \in DOMAIN taken :
              (i < j /\ taken[i].message.kind = "Shutdown") => taken[j].message.kind # "Message")


(***************************************************************************)
(* What a dispatch comes to.                                               *)
(***************************************************************************)
\* the handler of this name is one whose match_type is the message type
RegisteredFor(name, message_type) ==
    \E handler \in Handlers : handler.name = name /\ handler.match_type = message_type

\* the result and the invoked handlers are those of the handler the
\* dispatcher d keeps for the message type
ByItsHandler(d, message_type, message_bytes, done) ==
    /\ IsSome(d.handlers[message_type])
    /\ done.invoked = <<Unwrap(d.handlers[message_type])>>
    /\ RegisteredFor(done.invoked[1], message_type)
    /\ done.res = CASE message_bytes.form = "echo" -> OkRes
                    [] message_bytes.form = "garbled" ->
                           Err("DeserializationError", done.invoked[1])
                    [] message_bytes.form = "refused" ->
                           Err("HandleError", done.invoked[1])

\* the dispatch of the message by the dispatcher d came to done, as it has to
DispatchedRight(d, message_type, message_bytes, done) ==
    IF ~IsSome(d.network_sender)
    THEN done.res.kind = "MissingNetworkSender" /\ done.invoked = <<>>
    ELSE IF ~IsSome(d.handlers[message_type])
    THEN done.res.kind = "UnknownMessageType" /\ done.invoked = <<>>
    ELSE ByItsHandler(d, message_type, message_bytes, done)

\* the messages the thread has dispatched, oldest first
Dispatched == SelectSeq(taken, LAMBDA r : r.message.kind = "Message")

\* the thread has dispatched the messages in the order they were sent, one
\* at a time and none left out, each as the dispatcher has to
InSendOrder(right(_, _, _, _)) ==
    \A i \in DOMAIN Dispatched :
        /\ Dispatched[i].message.message_bytes.seq = i
        /\ right(dispatcher, Dispatched[i].message.message_type,
                 Dispatched[i].message.message_bytes, Dispatched[i])

\* the message is in the channel and no shutdown signal is before it
WaitsBeforeShutdown(n) ==
    \E i \in DOMAIN rx :
        /\ rx[i].kind = "Message"
        /\ rx[i].message_bytes.seq = n
        /\ \A j \in 1..i : rx[j].kind # "Shutdown"
        /\ \A j \in DOMAIN taken : taken[j].message.kind # "Shutdown"

\* C40: dispatch returns MissingNetworkSender and invokes no handler when
\* the dispatcher has no network sender; with a network sender it returns
\* UnknownMessageType and invokes no handler when no handler is registered
\* for the type of the message, and else it invokes the handler registered
\* for the type, and no other, and returns its result.  The thread of the
\* dispatch loop dispatches the messages one at a time in the order they
\* were sent, whatever the result of the ones before, and a message sent
\* before shutdown is dispatched in the end.
C40_DispatchByType ==
    /\ [][(last = Idle /\ last'.op = "dispatch")
             => DispatchedRight(dispatcher, last'.message_type, last'.message_bytes, last')]_vars
    /\ []InSendOrder(DispatchedRight)
    /\ \A n \in 1..MaxSent :
           [](WaitsBeforeShutdown(n) => <>(n <= Len(Dispatched)))

\* the thread has dispatched a message that came to an error and then one
\* that its handler handled, and the owner of a dispatcher without a network
\* sender had dispatched a message before
C40_Witness ==
    /\ Len(Dispatched) = 2
    /\ Dispatched[1].res.kind = "DeserializationError"
    /\ Dispatched[2].res = OkRes
    /\ Dispatched[2].invoked = <<"LoggingEchoHandler">>
    /\ last.op = "dispatch"
    /\ last.res.kind = "MissingNetworkSender"

=============================================================================
